---- MODULE Spec2Model ----
(***************************************************************************)
(* Seawater thermophysical property library (src/seawater-mit.js).         *)
(*                                                                         *)
(* The library is a set of pure functions of temperature T [C], salinity   *)
(* S [g/kg] and pressure P [MPa].  Every function starts with range        *)
(* guards that throw, and then evaluates a closed-form correlation, some   *)
(* of them through calls to other functions of the library.                *)
(*                                                                         *)
(* JavaScript numbers are modelled as decimal floating-point values        *)
(* [nan, m, e] standing for m * 10^e with an 8-digit mantissa              *)
(* (10^7 <= |m| < 10^8, or m = 0), or NaN, which stands for every value    *)
(* that is no finite number (NaN, Infinity, -Infinity).  Literals with     *)
(* more than 8 significant digits are rounded to 8.  The arithmetic keeps  *)
(* the order and the shape of the source's expressions: x ++ y, x -- y,    *)
(* x ** y and x // y are the sum, difference, product and quotient.        *)
(***************************************************************************)
EXTENDS Integers, Sequences, FiniteSets, TLC

----------------------------------------------------------------------------
(* JavaScript Number arithmetic *)

NaN == [nan |-> TRUE, m |-> 0, e |-> 0]

Zero == [nan |-> FALSE, m |-> 0, e |-> 0]

Abs(i) == IF i < 0 THEN -i ELSE i

Sgn(i) == IF i < 0 THEN -1 ELSE 1

Pow10(n) == 10 ^ n

\* magnitude a >= 0 scaled into 10^7 <= a < 10^8, rounding half up
RECURSIVE NormMag(_, _)
NormMag(a, e) ==
    IF a = 0 THEN <<0, 0>>
    ELSE IF a >= 1000000000 THEN NormMag((a + 50) \div 100, e + 2)
    ELSE IF a >= 100000000 THEN NormMag((a + 5) \div 10, e + 1)
    ELSE IF a < 10000000 THEN NormMag(a * 10, e - 1)
    ELSE <<a, e>>

\* the number i * 10^e, for any integer i
Num(i, e) ==
    LET n == NormMag(Abs(i), e)
    IN  [nan |-> FALSE, m |-> Sgn(i) * n[1], e |-> n[2]]

FNeg(x) == IF x.nan THEN NaN ELSE [x EXCEPT !.m = -x.m]

\* x + y, computed with one guard digit
FAdd(x, y) ==
    IF x.nan \/ y.nan THEN NaN
    ELSE IF x.m = 0 THEN y
    ELSE IF y.m = 0 THEN x
    ELSE LET big   == IF x.e >= y.e THEN x ELSE y
             small == IF x.e >= y.e THEN y ELSE x
             d     == big.e - small.e
         IN  IF d > 9 THEN big
             ELSE Num(big.m * 10
                      + Sgn(small.m) * ((Abs(small.m) * 10) \div Pow10(d)),
                    big.e - 1)

FSub(x, y) == FAdd(x, FNeg(y))

\* x * y, from the four partial products of the 4-digit halves
FMul(x, y) ==
    IF x.nan \/ y.nan THEN NaN
    ELSE IF x.m = 0 \/ y.m = 0 THEN Zero
    ELSE LET a  == Abs(x.m)
             b  == Abs(y.m)
             ah == a \div 10000
             al == a % 10000
             bh == b \div 10000
             bl == b % 10000
             q  == 10 * ah * bh + (ah * bl + al * bh + (al * bl) \div 10000) \div 1000
         IN  Num(Sgn(x.m) * Sgn(y.m) * q, x.e + y.e + 7)

\* n more digits of the quotient q, remainder r, divisor b
RECURSIVE LongDiv(_, _, _, _)
LongDiv(q, r, b, n) ==
    IF n = 0 THEN q
    ELSE LongDiv(q * 10 + (r * 10) \div b, (r * 10) % b, b, n - 1)

\* x / y; a division by zero is NaN here (the library never divides by zero
\* on a path its guards let through)
FDiv(x, y) ==
    IF x.nan \/ y.nan \/ y.m = 0 THEN NaN
    ELSE IF x.m = 0 THEN Zero
    ELSE LET a == Abs(x.m)
             b == Abs(y.m)
             q == LongDiv(a \div b, a % b, b, 8)
         IN  Num(Sgn(x.m) * Sgn(y.m) * q, x.e - y.e - 8)

\* x < y; every comparison with NaN is false
FLt(x, y) == IF x.nan \/ y.nan THEN FALSE ELSE FSub(x, y).m < 0

FGt(x, y) == FLt(y, x)

FLe(x, y) == IF x.nan \/ y.nan THEN FALSE ELSE FSub(x, y).m <= 0

FGe(x, y) == FLe(y, x)

\* x^n for n >= 1, as n - 1 products
RECURSIVE PowInt(_, _)
PowInt(x, n) == IF n = 1 THEN x ELSE FMul(x, PowInt(x, n - 1))

\* the integer nearest to x
RoundInt(x) ==
    IF x.e >= 0 THEN x.m * Pow10(x.e)
    ELSE IF x.e < -9 THEN 0
    ELSE Sgn(x.m) * ((Abs(x.m) + Pow10(-x.e) \div 2) \div Pow10(-x.e))

\* x / n for a small integer n > 0
DivInt(x, n) ==
    IF x.nan THEN NaN ELSE Num(Sgn(x.m) * ((Abs(x.m) * 10) \div n), x.e - 1)

Ln10 == Num(230258509, -8)

Ln2 == Num(693147181, -9)

\* 1 + r/n * (1 + r/(n+1) * (1 + ... r/last)): the series of exp(r) from n = 1
RECURSIVE ExpSeries(_, _, _)
ExpSeries(r, n, last) ==
    IF n > last THEN Num(1, 0)
    ELSE FAdd(Num(1, 0), FMul(DivInt(r, n), ExpSeries(r, n + 1, last)))

\* s * 10^k
Scale(s, k) == IF s.nan THEN NaN ELSE [s EXCEPT !.e = s.e + k]

Square(s) == FMul(s, s)

\* exp(k ln 10 + r) = 10^k * exp(r / 8)^8
ExpReduced(x, k) ==
    Scale(Square(Square(Square(
              ExpSeries(DivInt(FSub(x, FMul(Num(k, 0), Ln10)), 8), 1, 8)))), k)

\* Math.exp(x), with k the integer nearest x / ln 10
Exp(x) == IF x.nan THEN NaN ELSE ExpReduced(x, RoundInt(FDiv(x, Ln10)))

\* z + z^3/3 + z^5/5 + ... from the term of odd index n on, zn = z^n
RECURSIVE AtanhSeries(_, _, _, _)
AtanhSeries(zn, z2, n, last) ==
    IF n > last THEN Zero
    ELSE FAdd(DivInt(zn, n), AtanhSeries(FMul(zn, z2), z2, n + 2, last))

\* 2 atanh(z)
Atanh2(z) == FMul(Num(2, 0), AtanhSeries(z, FMul(z, z), 1, 13))

\* ln(y * 2^j * 10^k) for y between 0.7 and 1.42
LnReduced(y, j, k) ==
    FAdd(FAdd(FMul(Num(k, 0), Ln10), FMul(Num(j, 0), Ln2)),
         Atanh2(FDiv(FSub(y, Num(1, 0)), FAdd(y, Num(1, 0)))))

\* the power of 2 that brings a mantissa m into 0.7 .. 1.42 (times 10^7)
Halvings(m) ==
    IF m < 14142136 THEN 0
    ELSE IF m < 28284271 THEN 1
    ELSE IF m < 56568542 THEN 2
    ELSE 3

LnMantissa(m, j, k) ==
    LnReduced(DivInt([nan |-> FALSE, m |-> m, e |-> -7], 2 ^ j), j, k)

\* Math.log(x); log(0) = -Infinity and log(x < 0) = NaN are both NaN here
Ln(x) ==
    IF x.nan \/ x.m <= 0 THEN NaN
    ELSE LnMantissa(x.m, Halvings(x.m), x.e + 7)

\* y is one of 1, 2, ..., 9
IsDigit(y) == y.e = -7 /\ y.m > 0 /\ y.m % 10000000 = 0

\* Math.pow(x, y): a product for an exponent 1 .. 9, exp(y ln x) otherwise;
\* pow(0, y > 0) = 0
Pow(x, y) ==
    IF x.nan \/ y.nan THEN NaN
    ELSE IF IsDigit(y) THEN PowInt(x, y.m \div 10000000)
    ELSE IF x.m = 0 THEN (IF y.m > 0 THEN Zero ELSE NaN)
    ELSE Exp(FMul(y, Ln(x)))

Log10(x) == FDiv(Ln(x), Ln10)

----------------------------------------------------------------------------
(* Evaluation.  Every operation in the body of a property function (a      *)
(* numeric literal, an arithmetic operator, a comparison, a Math function)  *)
(* is one application of the evaluator Eval, which is defined below the     *)
(* property functions and which also runs the functions themselves.         *)

RECURSIVE Eval(_, _)

\* the numeric literal i * 10^e
Dec(i, e) == Eval("literal", <<i, e>>)

x ++ y == Eval("+", <<x, y>>)

x -- y == Eval("-", <<x, y>>)

x ** y == Eval("*", <<x, y>>)

x // y == Eval("/", <<x, y>>)

Lt(x, y) == Eval("<", <<x, y>>)

Gt(x, y) == Eval(">", <<x, y>>)

Le(x, y) == Eval("<=", <<x, y>>)

Ge(x, y) == Eval(">=", <<x, y>>)

Math_exp(x) == Eval("Math.exp", <<x>>)

Math_log(x) == Eval("Math.log", <<x>>)

Math_log10(x) == Eval("Math.log10", <<x>>)

Math_pow(x, y) == Eval("Math.pow", <<x, y>>)

\* what `x || d` tests: undefined, NaN and 0 are falsy
Falsy(x) == x.nan \/ x.m = 0

\* an argument the caller left out
Undefined == [nan |-> TRUE, m |-> 0, e |-> 1]

----------------------------------------------------------------------------
(* Outcome of a call: a returned number, or a thrown error.  kind is the    *)
(* error's class, subject the leading words of its message (the variable it *)
(* names), by the function that threw it.  p0 is the reference pressure the *)
(* function resolved, when it resolved one.  log lists, in order, the calls *)
(* made into the library, each followed by how it ended.                    *)

NoLog == <<>>

Ret(v, sub) ==
    [ok |-> TRUE, val |-> v, kind |-> "none", subject |-> "none", by |-> "none",
     p0 |-> NaN, log |-> sub]

\* throw new Error("<subj> is out of range for ... function ...")
Throw(f, subj, sub) ==
    [ok |-> FALSE, val |-> NaN, kind |-> "Error", subject |-> subj, by |-> f,
     p0 |-> NaN, log |-> sub]

\* a call of g, a name the library does not define
NotDefined(f, g, sub) ==
    [ok |-> FALSE, val |-> NaN, kind |-> "ReferenceError", subject |-> g, by |-> f,
     p0 |-> NaN, log |-> sub]

\* a literal where the source has a call or a literal
Lit(v) == Ret(v, NoLog)

\* SW_X(...) / d
Over(r, d) == [r EXCEPT !.val = r.val // d]

\* the outcome r of a function that resolved the reference pressure p
Ref(p, r) == [r EXCEPT !.p0 = p]

\* the library's calls rs, made in this order, stop at the first that throws
RECURSIVE FirstFail(_, _)
FirstFail(rs, i) ==
    IF i > Len(rs) THEN 0
    ELSE IF ~rs[i].ok THEN i
    ELSE FirstFail(rs, i + 1)

RECURSIVE LogsUpTo(_, _)
LogsUpTo(rs, n) == IF n = 0 THEN <<>> ELSE LogsUpTo(rs, n - 1) \o rs[n].log

AllOk(rs) == FirstFail(rs, 1) = 0

SubLog(rs) == LogsUpTo(rs, IF AllOk(rs) THEN Len(rs) ELSE FirstFail(rs, 1))

\* a caller that catches the error of a callee and goes on without a number
Caught(rs) == Ret(NaN, SubLog(rs))

\* an error thrown by a callee is not caught: it leaves the caller as it is
Propagate(rs) == [rs[FirstFail(rs, 1)] EXCEPT !.log = SubLog(rs), !.p0 = NaN]

\* one call of function f with arguments a, whose body ended as r
Called(f, a, r) ==
    [r EXCEPT !.log = <<[ev |-> "call", f |-> f, a |-> a]>> \o r.log
                      \o <<[ev |-> IF r.ok THEN "return" ELSE "throw", f |-> f,
                            a |-> a]>>]

\* a guard that tests the lower bound only
BelowOnly(x, lo, hi) == Lt(x, lo)

\* value < min || value > max
OutOf(x, lo, hi) == Lt(x, lo) \/ Gt(x, hi)

----------------------------------------------------------------------------
(* The property functions *)

SW_Psat(T, S) ==
    Called("SW_Psat", <<T, S>>,
      IF OutOf(T, Dec(0, 0), Dec(180, 0))
        THEN Throw("SW_Psat", "Temperature", NoLog)
      ELSE IF OutOf(S, Dec(0, 0), Dec(160, 0))
        THEN Throw("SW_Psat", "Salinity", NoLog)
      ELSE
        LET T_K  == T ++ Dec(27315, -2)
            a1   == Dec(-58002206, -4)
            a2   == Dec(13914993, -7)
            a3   == Dec(-48640239, -9)
            a4   == Dec(41764768, -12)
            a5   == Dec(-14452093, -15)
            a6   == Dec(65459673, -7)
            Pv_w == Math_exp((a1 // T_K)
                             ++ a2
                             ++ (a3 ** T_K)
                             ++ (a4 ** Math_pow(T_K, Dec(2, 0)))
                             ++ (a5 ** Math_pow(T_K, Dec(3, 0)))
                             ++ (a6 ** Math_log(T_K)))
            b1   == Dec(-45818, -8)
            b2   == Dec(-20443, -10)
        IN
            Ret(Pv_w
                          ** Math_exp((b1 ** S) ++ (b2 ** Math_pow(S, Dec(2, 0)))), NoLog))

SW_BPE_with_S(T, S) ==
    LET a1 == Dec(-4583853, -10)
        a2 == Dec(28230948, -8)
        a3 == Dec(17945189, -6)
        a4 == Dec(15361753, -11)
        a5 == Dec(52669058, -9)
        a6 == Dec(65604856, -7)
        A  == (a1 ** Math_pow(T, Dec(2, 0))) ++ (a2 ** T) ++ a3
        B  == (a4 ** Math_pow(T, Dec(2, 0))) ++ (a5 ** T) ++ a6
    IN
        Ret((A ** Math_pow(S, Dec(2, 0))) ++ (B ** S), NoLog)

SW_BPE(T, S) ==
    Called("SW_BPE", <<T, S>>,
      IF OutOf(T, Dec(0, 0), Dec(200, 0))
        THEN Throw("SW_BPE", "Temperature", NoLog)
      ELSE IF OutOf(S, Dec(0, 0), Dec(120, 0))
        THEN Throw("SW_BPE", "Salinity", NoLog)
      ELSE SW_BPE_with_S(T, S // Dec(1000, 0)))

\* SW_Gibbs with the salinity term guarded by S >= 0: log(S) is taken at S = 0
SW_Gibbs_with_log_at_zero(T, S, P, P_sat_c, P0_c) ==
    LET P_sat == P_sat_c.val
        P0    == P0_c.val
    IN
        IF ~AllOk(<<P_sat_c, P0_c>>) THEN Propagate(<<P_sat_c, P0_c>>)
        ELSE
          LET a1  == Dec(10677, -2)
              a2  == Dec(-14303, -4)
              a3  == Dec(-76139, -4)
              a4  == Dec(83627, -7)
              a5  == Dec(-78754, -10)
              g_w == a1
                     ++ (a2 ** T)
                     ++ (a3 ** Math_pow(T, Dec(2, 0)))
                     ++ (a4 ** Math_pow(T, Dec(3, 0)))
                     ++ (a5 ** Math_pow(T, Dec(4, 0)))
              b1  == Dec(-24176, -2)
              b2  == Dec(-62462, -5)
              b3  == Dec(74761, -7)
              b4  == Dec(13836, -7)
              b5  == Dec(-67157, -10)
              b6  == Dec(51993, -8)
              b7  == Dec(99176, -13)
              b8  == Dec(66448, -3)
              b9  == Dec(20681, -5)
              g_sw_P0 == IF Ge(S, Dec(0, 0))
                         THEN (b1 ** S)
                              ++ (b2 ** S ** T)
                              ++ (b3 ** S ** Math_pow(T, Dec(2, 0)))
                              ++ (b4 ** Math_pow(S, Dec(2, 0)) ** T)
                              ++ (b5 ** Math_pow(S, Dec(2, 0)) ** Math_pow(T, Dec(2, 0)))
                              ++ (b6 ** Math_pow(S, Dec(3, 0)))
                              ++ (b7 ** Math_pow(S, Dec(3, 0)) ** Math_pow(T, Dec(2, 0)))
                              ++ (b8 ** S ** Math_log(S))
                              ++ (b9 ** S ** T ** Math_log(S))
                         ELSE Dec(0, 0)
              c1     == Dec(9961978, -4)
              c2     == Dec(3491, -5)
              c3     == Dec(47231, -7)
              c4     == Dec(-69037, -10)
              c5     == Dec(-72431, -5)
              c6     == Dec(15712, -7)
              c7     == Dec(-18919, -9)
              c8     == Dec(25939, -12)
              g_sw_P == (P -- P0)
                        ** (c1
                            ++ (c2 ** T)
                            ++ (c3 ** Math_pow(T, Dec(2, 0)))
                            ++ (c4 ** Math_pow(T, Dec(3, 0)))
                            ++ (S
                                ** (c5
                                    ++ (c6 ** T)
                                    ++ (c7 ** Math_pow(T, Dec(2, 0)))
                                    ++ (c8 ** Math_pow(T, Dec(3, 0))))))
          IN
              Ref(P0, Ret(g_w ++ g_sw_P0 ++ g_sw_P, SubLog(<<P_sat_c, P0_c>>)))

SW_Gibbs_with_P0(T, S, P, P_sat_c, P0_c) ==
    LET P_sat == P_sat_c.val
        P0    == P0_c.val
    IN
        IF ~AllOk(<<P_sat_c, P0_c>>) THEN Propagate(<<P_sat_c, P0_c>>)
        ELSE
          LET a1  == Dec(10677, -2)
              a2  == Dec(-14303, -4)
              a3  == Dec(-76139, -4)
              a4  == Dec(83627, -7)
              a5  == Dec(-78754, -10)
              g_w == a1
                     ++ (a2 ** T)
                     ++ (a3 ** Math_pow(T, Dec(2, 0)))
                     ++ (a4 ** Math_pow(T, Dec(3, 0)))
                     ++ (a5 ** Math_pow(T, Dec(4, 0)))
              b1  == Dec(-24176, -2)
              b2  == Dec(-62462, -5)
              b3  == Dec(74761, -7)
              b4  == Dec(13836, -7)
              b5  == Dec(-67157, -10)
              b6  == Dec(51993, -8)
              b7  == Dec(99176, -13)
              b8  == Dec(66448, -3)
              b9  == Dec(20681, -5)
              g_sw_P0 == IF Gt(S, Dec(0, 0))
                         THEN (b1 ** S)
                              ++ (b2 ** S ** T)
                              ++ (b3 ** S ** Math_pow(T, Dec(2, 0)))
                              ++ (b4 ** Math_pow(S, Dec(2, 0)) ** T)
                              ++ (b5 ** Math_pow(S, Dec(2, 0)) ** Math_pow(T, Dec(2, 0)))
                              ++ (b6 ** Math_pow(S, Dec(3, 0)))
                              ++ (b7 ** Math_pow(S, Dec(3, 0)) ** Math_pow(T, Dec(2, 0)))
                              ++ (b8 ** S ** Math_log(S))
                              ++ (b9 ** S ** T ** Math_log(S))
                         ELSE Dec(0, 0)
              c1     == Dec(9961978, -4)
              c2     == Dec(3491, -5)
              c3     == Dec(47231, -7)
              c4     == Dec(-69037, -10)
              c5     == Dec(-72431, -5)
              c6     == Dec(15712, -7)
              c7     == Dec(-18919, -9)
              c8     == Dec(25939, -12)
              g_sw_P == (P -- P0)
                        ** (c1
                            ++ (c2 ** T)
                            ++ (c3 ** Math_pow(T, Dec(2, 0)))
                            ++ (c4 ** Math_pow(T, Dec(3, 0)))
                            ++ (S
                                ** (c5
                                    ++ (c6 ** T)
                                    ++ (c7 ** Math_pow(T, Dec(2, 0)))
                                    ++ (c8 ** Math_pow(T, Dec(3, 0))))))
          IN
              Ref(P0, Ret(g_w ++ g_sw_P0 ++ g_sw_P, SubLog(<<P_sat_c, P0_c>>)))

SW_Gibbs_with_P_sat(T, S, P, P_sat_c) ==
    LET P_sat == P_sat_c.val
    IN
        IF ~AllOk(<<P_sat_c>>) THEN Propagate(<<P_sat_c>>)
        ELSE IF OutOf(P, P_sat, Dec(12, 0))
          THEN Throw("SW_Gibbs", "Pressure", SubLog(<<P_sat_c>>))
        ELSE SW_Gibbs_with_P0(T, S, P, P_sat_c,
                              IF Lt(T, Dec(100, 0)) THEN Lit(Dec(101325, -6))
                              ELSE Over(SW_Psat(T, S), Dec(1, 6)))

SW_Gibbs(T, S, P) ==
    Called("SW_Gibbs", <<T, S, P>>,
      IF OutOf(T, Dec(10, 0), Dec(120, 0))
        THEN Throw("SW_Gibbs", "Temperature", NoLog)
      ELSE IF OutOf(S, Dec(0, 0), Dec(120, 0))
        THEN Throw("SW_Gibbs", "Salinity", NoLog)
      ELSE SW_Gibbs_with_P_sat(T, S, P,
                               Over(SW_Psat(T, S), Dec(1, 6))))

SW_ChemPot_s_with_g(T, S, P, P_sat_c, P0_c, g_c) ==
    LET P_sat == P_sat_c.val
        P0    == P0_c.val
        g     == g_c.val
    IN
        IF ~AllOk(<<P_sat_c, P0_c, g_c>>) THEN Ref(P0, Propagate(<<P_sat_c, P0_c, g_c>>))
        ELSE
          LET b1       == Dec(-24176, -2)
              b2       == Dec(-62462, -5)
              b3       == Dec(74761, -7)
              b4       == Dec(13836, -7)
              b5       == Dec(-67157, -10)
              b6       == Dec(51993, -8)
              b7       == Dec(99176, -13)
              b8       == Dec(66448, -3)
              b9       == Dec(20681, -5)
              dg_ds_P0 == b1
                          ++ (b2 ** T)
                          ++ (b3 ** Math_pow(T, Dec(2, 0)))
                          ++ (Dec(2, 0) ** b4 ** S ** T)
                          ++ (Dec(2, 0) ** b5 ** S ** Math_pow(T, Dec(2, 0)))
                          ++ (Dec(3, 0) ** b6 ** Math_pow(S, Dec(2, 0)))
                          ++ (Dec(3, 0)
                              ** b7
                              ** Math_pow(S, Dec(2, 0))
                              ** Math_pow(T, Dec(2, 0)))
                          ++ (b8 ** (Math_log(S) ++ Dec(1, 0)))
                          ++ (b9 ** T ** (Math_log(S) ++ Dec(1, 0)))
              c5       == Dec(-72431, -5)
              c6       == Dec(15712, -7)
              c7       == Dec(-18919, -9)
              c8       == Dec(25939, -12)
              dg_ds_P  == (P -- P0)
                          ** (c5
                              ++ (c6 ** T)
                              ++ (c7 ** Math_pow(T, Dec(2, 0)))
                              ++ (c8 ** Math_pow(T, Dec(3, 0))))
              dg_ds    == dg_ds_P0 ++ dg_ds_P
              mu_s == g ++ ((Dec(1000, 0) -- S) ** dg_ds)
          IN
              Ref(P0, Ret(mu_s, SubLog(<<P_sat_c, P0_c, g_c>>)))

\* SW_ChemPot_s with P > P0 && S > 42 || T > 40: T > 40 throws at any pressure
SW_ChemPot_s_unbracketed(T, S, P, P_sat_c, P0_c) ==
    LET P_sat == P_sat_c.val
        P0    == P0_c.val
    IN
        IF ~AllOk(<<P_sat_c, P0_c>>) THEN Propagate(<<P_sat_c, P0_c>>)
        ELSE IF (Gt(P, P0) /\ Gt(S, Dec(42, 0))) \/ Gt(T, Dec(40, 0))
          THEN Ref(P0, Throw("SW_ChemPot_s", "Salinity", SubLog(<<P_sat_c, P0_c>>)))
        ELSE SW_ChemPot_s_with_g(T, S, P, P_sat_c, P0_c,
                                 SW_Gibbs(T, S, P))

SW_ChemPot_s_with_P0(T, S, P, P_sat_c, P0_c) ==
    LET P_sat == P_sat_c.val
        P0    == P0_c.val
    IN
        IF ~AllOk(<<P_sat_c, P0_c>>) THEN Propagate(<<P_sat_c, P0_c>>)
        ELSE IF Gt(P, P0) /\ (Gt(S, Dec(42, 0)) \/ Gt(T, Dec(40, 0)))
          THEN Ref(P0, Throw("SW_ChemPot_s", "Salinity", SubLog(<<P_sat_c, P0_c>>)))
        ELSE SW_ChemPot_s_with_g(T, S, P, P_sat_c, P0_c,
                                 SW_Gibbs(T, S, P))

SW_ChemPot_s_with_P_sat(T, S, P, P_sat_c) ==
    LET P_sat == P_sat_c.val
    IN
        IF ~AllOk(<<P_sat_c>>) THEN Propagate(<<P_sat_c>>)
        ELSE IF OutOf(P, P_sat, Dec(12, 0))
          THEN Throw("SW_ChemPot_s", "Pressure", SubLog(<<P_sat_c>>))
        ELSE SW_ChemPot_s_with_P0(T, S, P, P_sat_c,
                                  IF Lt(T, Dec(100, 0)) THEN Lit(Dec(101325, -6))
                                  ELSE Over(SW_Psat(T, S), Dec(1, 6)))

SW_ChemPot_s(T, S, P) ==
    Called("SW_ChemPot_s", <<T, S, P>>,
      IF OutOf(T, Dec(10, 0), Dec(80, 0))
        THEN Throw("SW_ChemPot_s", "Temperature", NoLog)
      ELSE IF OutOf(S, Dec(1, -1), Dec(120, 0))
        THEN Throw("SW_ChemPot_s", "Salinity", NoLog)
      ELSE SW_ChemPot_s_with_P_sat(T, S, P,
                                   Over(SW_Psat(T, S), Dec(1, 6))))

\* SW_ChemPot_w with the salinity term guarded by S >= 0: log(S) is taken at S = 0
SW_ChemPot_w_with_log_at_zero(T, S, P, P_sat_c, P0_c, g_c) ==
    LET P_sat == P_sat_c.val
        P0    == P0_c.val
        g     == g_c.val
    IN
        IF ~AllOk(<<P_sat_c, P0_c, g_c>>) THEN Ref(P0, Propagate(<<P_sat_c, P0_c, g_c>>))
        ELSE
          LET b1 == Dec(-24176, -2)
              b2 == Dec(-62462, -5)
              b3 == Dec(74761, -7)
              b4 == Dec(13836, -7)
              b5 == Dec(-67157, -10)
              b6 == Dec(51993, -8)
              b7 == Dec(99176, -13)
              b8 == Dec(66448, -3)
              b9 == Dec(20681, -5)
              Sdg_dS == IF Ge(S, Dec(0, 0))
                        THEN LET dg_ds_P0 == b1
                                             ++ (b2 ** T)
                                             ++ (b3 ** Math_pow(T, Dec(2, 0)))
                                             ++ (Dec(2, 0) ** b4 ** S ** T)
                                             ++ (Dec(2, 0)
                                                 ** b5
                                                 ** S
                                                 ** Math_pow(T, Dec(2, 0)))
                                             ++ (Dec(3, 0)
                                                 ** b6
                                                 ** Math_pow(S, Dec(2, 0)))
                                             ++ (Dec(3, 0)
                                                 ** b7
                                                 ** Math_pow(S, Dec(2, 0))
                                                 ** Math_pow(T, Dec(2, 0)))
                                             ++ (b8 ** (Math_log(S) ++ Dec(1, 0)))
                                             ++ (b9 ** T ** (Math_log(S) ++ Dec(1, 0)))
                                 c5       == Dec(-72431, -5)
                                 c6       == Dec(15712, -7)
                                 c7       == Dec(-18919, -9)
                                 c8       == Dec(25939, -12)
                                 dg_ds_P  == (P -- P0)
                                             ** (c5
                                                 ++ (c6 ** T)
                                                 ++ (c7 ** Math_pow(T, Dec(2, 0)))
                                                 ++ (c8 ** Math_pow(T, Dec(3, 0))))
                                 dg_ds    == dg_ds_P0 ++ dg_ds_P
                             IN  S ** dg_ds
                        ELSE Dec(0, 0)
          IN
              Ref(P0, Ret(g -- Sdg_dS, SubLog(<<P_sat_c, P0_c, g_c>>)))

SW_ChemPot_w_with_g(T, S, P, P_sat_c, P0_c, g_c) ==
    LET P_sat == P_sat_c.val
        P0    == P0_c.val
        g     == g_c.val
    IN
        IF ~AllOk(<<P_sat_c, P0_c, g_c>>) THEN Ref(P0, Propagate(<<P_sat_c, P0_c, g_c>>))
        ELSE
          LET b1 == Dec(-24176, -2)
              b2 == Dec(-62462, -5)
              b3 == Dec(74761, -7)
              b4 == Dec(13836, -7)
              b5 == Dec(-67157, -10)
              b6 == Dec(51993, -8)
              b7 == Dec(99176, -13)
              b8 == Dec(66448, -3)
              b9 == Dec(20681, -5)
              Sdg_dS == IF Gt(S, Dec(0, 0))
                        THEN LET dg_ds_P0 == b1
                                             ++ (b2 ** T)
                                             ++ (b3 ** Math_pow(T, Dec(2, 0)))
                                             ++ (Dec(2, 0) ** b4 ** S ** T)
                                             ++ (Dec(2, 0)
                                                 ** b5
                                                 ** S
                                                 ** Math_pow(T, Dec(2, 0)))
                                             ++ (Dec(3, 0)
                                                 ** b6
                                                 ** Math_pow(S, Dec(2, 0)))
                                             ++ (Dec(3, 0)
                                                 ** b7
                                                 ** Math_pow(S, Dec(2, 0))
                                                 ** Math_pow(T, Dec(2, 0)))
                                             ++ (b8 ** (Math_log(S) ++ Dec(1, 0)))
                                             ++ (b9 ** T ** (Math_log(S) ++ Dec(1, 0)))
                                 c5       == Dec(-72431, -5)
                                 c6       == Dec(15712, -7)
                                 c7       == Dec(-18919, -9)
                                 c8       == Dec(25939, -12)
                                 dg_ds_P  == (P -- P0)
                                             ** (c5
                                                 ++ (c6 ** T)
                                                 ++ (c7 ** Math_pow(T, Dec(2, 0)))
                                                 ++ (c8 ** Math_pow(T, Dec(3, 0))))
                                 dg_ds    == dg_ds_P0 ++ dg_ds_P
                             IN  S ** dg_ds
                        ELSE Dec(0, 0)
          IN
              Ref(P0, Ret(g -- Sdg_dS, SubLog(<<P_sat_c, P0_c, g_c>>)))

SW_ChemPot_w_with_P0(T, S, P, P_sat_c, P0_c) ==
    LET P_sat == P_sat_c.val
        P0    == P0_c.val
    IN
        IF ~AllOk(<<P_sat_c, P0_c>>) THEN Propagate(<<P_sat_c, P0_c>>)
        ELSE IF Gt(P, P0) /\ (Gt(S, Dec(42, 0)) \/ Gt(T, Dec(40, 0)))
          THEN Ref(P0, Throw("SW_ChemPot_w", "Salinity", SubLog(<<P_sat_c, P0_c>>)))
        ELSE SW_ChemPot_w_with_g(T, S, P, P_sat_c, P0_c,
                                 SW_Gibbs(T, S, P))

SW_ChemPot_w_with_P_sat(T, S, P, P_sat_c) ==
    LET P_sat == P_sat_c.val
    IN
        IF ~AllOk(<<P_sat_c>>) THEN Propagate(<<P_sat_c>>)
        ELSE IF OutOf(P, P_sat, Dec(12, 0))
          THEN Throw("SW_ChemPot_w", "Pressure", SubLog(<<P_sat_c>>))
        ELSE SW_ChemPot_w_with_P0(T, S, P, P_sat_c,
                                  IF Lt(T, Dec(100, 0)) THEN Lit(Dec(101325, -6))
                                  ELSE Over(SW_Psat(T, S), Dec(1, 6)))

SW_ChemPot_w(T, S, P) ==
    Called("SW_ChemPot_w", <<T, S, P>>,
      IF OutOf(T, Dec(10, 0), Dec(80, 0))
        THEN Throw("SW_ChemPot_w", "Temperature", NoLog)
      ELSE IF OutOf(S, Dec(0, 0), Dec(120, 0))
        THEN Throw("SW_ChemPot_w", "Salinity", NoLog)
      ELSE SW_ChemPot_w_with_P_sat(T, S, P,
                                   Over(SW_Psat(T, S), Dec(1, 6))))

SW_Conductivity(T, S) ==
    Called("SW_Conductivity", <<T, S>>,
      IF OutOf(T, Dec(0, 0), Dec(180, 0))
        THEN Throw("SW_Conductivity", "Temperature", NoLog)
      ELSE IF OutOf(S, Dec(0, 0), Dec(160, 0))
        THEN Throw("SW_Conductivity", "Salinity", NoLog)
      ELSE
        LET T68 == Dec(100024, -5) ** T
            SP  == S // Dec(100472, -5)
        IN
            Ret(Dec(1, -3)
                          ** Math_pow(Dec(10, 0),
                                       Math_log10(Dec(240, 0)
                                                      ++ (Dec(2, -4) ** SP))
                                       ++ (Dec(434, -3)
                                           ** (Dec(23, -1)
                                               -- ((Dec(3435, -1)
                                                       ++ (Dec(37, -3) ** SP))
                                                   // (T68 ++ Dec(27315, -2))))
                                           ** Math_pow(Dec(1, 0)
                                                        -- ((T68 ++ Dec(27315, -2))
                                                            // (Dec(6473, -1)
                                                                ++ (Dec(3, -2) ** SP))),
                                                        Dec(1, 0) // Dec(3, 0)))), NoLog))

SW_ConductivityP_with_P_sat(T, S, P, P_sat_c) ==
    LET P_sat == P_sat_c.val
    IN
        IF ~AllOk(<<P_sat_c>>) THEN Propagate(<<P_sat_c>>)
        ELSE IF OutOf(P, P_sat, Dec(12, 0))
          THEN Throw("SW_ConductivityP", "Pressure", SubLog(<<P_sat_c>>))
        ELSE
          LET T_star == (T ++ Dec(27315, -2)) // Dec(300, 0)
              P_star == (P -- Dec(1, -1)) // Dec(1399, -1)
              k_fw0  == (((Dec(79701514, -8)
                                    ** Math_pow(T_star, Dec(-19382389, -8)))
                                -- (Dec(25124202, -8)
                                    ** Math_pow(T_star, Dec(-47166384, -7))))
                            ++ (Dec(96436589, -9)
                                ** Math_pow(T_star, Dec(-63846355, -7))))
                        -- (Dec(32695649, -9) ** Math_pow(T_star, Dec(-2133621, -6)))
              A      == ((((Dec(13464, -3) ** Math_pow(T_star, Dec(4, 0)))
                                    -- (Dec(60727, -3) ** Math_pow(T_star, Dec(3, 0))))
                                ++ (Dec(10281, -2) ** Math_pow(T_star, Dec(2, 0))))
                            -- (Dec(77387, -3) ** T_star))
                        ++ Dec(21942, -3)
              k_fw   == k_fw0 ** (Dec(1, 0) ++ (A ** P_star))
              B      == Dec(22, -5)
          IN
              Ret(k_fw // ((B ** S) ++ Dec(1, 0)), SubLog(<<P_sat_c>>))

SW_ConductivityP(T, S, P) ==
    Called("SW_ConductivityP", <<T, S, P>>,
      IF OutOf(T, Dec(10, 0), Dec(90, 0))
        THEN Throw("SW_ConductivityP", "Temperature", NoLog)
      ELSE IF OutOf(S, Dec(0, 0), Dec(120, 0))
        THEN Throw("SW_ConductivityP", "Salinity", NoLog)
      ELSE SW_ConductivityP_with_P_sat(T, S, P,
                                       Over(SW_Psat(T, S), Dec(1, 6))))

SW_Density_with_P_sat(T, S, P, P0_c, P_sat_c) ==
    LET P0    == P0_c.val
        P_sat == P_sat_c.val
    IN
        IF ~AllOk(<<P0_c, P_sat_c>>) THEN Ref(P0, Propagate(<<P0_c, P_sat_c>>))
        ELSE IF OutOf(P, P_sat, Dec(12, 0))
          THEN Ref(P0, Throw("SW_Density", "Pressure", SubLog(<<P0_c, P_sat_c>>)))
        ELSE
          LET S_kgkg       == S // Dec(1000, 0)
              a1           == Dec(99992293, -5)
              a2           == Dec(20341179, -9)
              a3           == Dec(-61624592, -10)
              a4           == Dec(22614665, -12)
              a5           == Dec(-46570659, -15)
              b1           == Dec(80200241, -5)
              b2           == Dec(-20005183, -7)
              b3           == Dec(16771025, -9)
              b4           == Dec(-30600537, -12)
              b5           == Dec(-16132225, -12)
              c1           == Dec(50792, -8)
              c2           == Dec(-34168, -10)
              c3           == Dec(56931, -12)
              c4           == Dec(-37263, -14)
              c5           == Dec(14465, -16)
              c6           == Dec(-17058, -19)
              c7           == Dec(-13389, -10)
              c8           == Dec(48603, -13)
              c9           == Dec(-68039, -17)
              d1           == Dec(-11077, -10)
              d2           == Dec(55584, -13)
              d3           == Dec(-42539, -15)
              d4           == Dec(83702, -13)
              rho_w        == a1
                              ++ (a2 ** T)
                              ++ (a3 ** Math_pow(T, Dec(2, 0)))
                              ++ (a4 ** Math_pow(T, Dec(3, 0)))
                              ++ (a5 ** Math_pow(T, Dec(4, 0)))
              D_rho        == (b1 ** S_kgkg)
                              ++ (b2 ** S_kgkg ** T)
                              ++ (b3 ** S_kgkg ** Math_pow(T, Dec(2, 0)))
                              ++ (b4 ** S_kgkg ** Math_pow(T, Dec(3, 0)))
                              ++ (b5
                                  ** Math_pow(S_kgkg, Dec(2, 0))
                                  ** Math_pow(T, Dec(2, 0)))
              rho_sw_sharq == rho_w ++ D_rho
              kT           == c1
                              ++ (c2 ** T)
                              ++ (c3 ** Math_pow(T, Dec(2, 0)))
                              ++ (c4 ** Math_pow(T, Dec(3, 0)))
                              ++ (c5 ** Math_pow(T, Dec(4, 0)))
                              ++ (c6 ** Math_pow(T, Dec(5, 0)))
                              ++ (P
                                  ** (c7
                                      ++ (c8 ** T)
                                      ++ (c9 ** Math_pow(T, Dec(3, 0)))))
                              ++ (S
                                  ** (d1
                                      ++ (d2 ** T)
                                      ++ (d3 ** Math_pow(T, Dec(2, 0)))
                                      ++ (d4 ** P)))
              F_P          == Math_exp(((P -- P0)
                                           ** (c1
                                               ++ (c2 ** T)
                                               ++ (c3 ** Math_pow(T, Dec(2, 0)))
                                               ++ (c4 ** Math_pow(T, Dec(3, 0)))
                                               ++ (c5 ** Math_pow(T, Dec(4, 0)))
                                               ++ (c6 ** Math_pow(T, Dec(5, 0)))
                                               ++ (S
                                                   ** (d1
                                                       ++ (d2 ** T)
                                                       ++ (d3
                                                           ** Math_pow(T, Dec(2, 0)))))))
                                       ++ (Dec(5, -1)
                                           ** (Math_pow(P, Dec(2, 0))
                                               -- Math_pow(P0, Dec(2, 0)))
                                           ** (c7
                                               ++ (c8 ** T)
                                               ++ (c9 ** Math_pow(T, Dec(3, 0)))
                                               ++ (d4 ** S))))
          IN
              Ref(P0, Ret(rho_sw_sharq ** F_P, SubLog(<<P0_c, P_sat_c>>)))

SW_Density_with_P0(T, S, P, P0_c) ==
    LET P0 == P0_c.val
    IN
        IF ~AllOk(<<P0_c>>) THEN Propagate(<<P0_c>>)
        ELSE SW_Density_with_P_sat(T, S, P, P0_c,
                                   Over(SW_Psat(T, S), Dec(1, 6)))

\* SW_Density with the salinity guard before the temperature guard
SW_Density_salinity_first(T, S, P) ==
    Called("SW_Density", <<T, S, P>>,
      IF OutOf(S, Dec(0, 0), Dec(150, 0))
        THEN Throw("SW_Density", "Salinity", NoLog)
      ELSE IF OutOf(T, Dec(0, 0), Dec(180, 0))
        THEN Throw("SW_Density", "Temperature", NoLog)
      ELSE SW_Density_with_P0(T, S, P,
                              IF Lt(T, Dec(100, 0)) THEN Lit(Dec(101325, -6))
                              ELSE Over(SW_Psat(T, S), Dec(1, 6))))

SW_Density(T, S, P) ==
    Called("SW_Density", <<T, S, P>>,
      IF OutOf(T, Dec(0, 0), Dec(180, 0))
        THEN Throw("SW_Density", "Temperature", NoLog)
      ELSE IF OutOf(S, Dec(0, 0), Dec(150, 0))
        THEN Throw("SW_Density", "Salinity", NoLog)
      ELSE SW_Density_with_P0(T, S, P,
                              IF Lt(T, Dec(100, 0)) THEN Lit(Dec(101325, -6))
                              ELSE Over(SW_Psat(T, S), Dec(1, 6))))

SW_SpcHeat_with_P0(T, S, P, P_sat_c, P0_c) ==
    LET P_sat == P_sat_c.val
        P0    == P0_c.val
    IN
        IF ~AllOk(<<P_sat_c, P0_c>>) THEN Propagate(<<P_sat_c, P0_c>>)
        ELSE
          LET T68      == Dec(100024, -5) ** T
              SP       == S // Dec(100472, -5)
              A        == (Dec(5328, -3) -- (Dec(976, -4) ** SP))
                          ++ (Dec(404, -6) ** Math_pow(SP, Dec(2, 0)))
              B        == (Dec(-6913, -6) ++ (Dec(7351, -7) ** SP))
                          -- (Dec(315, -8) ** Math_pow(SP, Dec(2, 0)))
              C        == (Dec(96, -7) -- (Dec(1927, -9) ** SP))
                          ++ (Dec(823, -11) ** Math_pow(SP, Dec(2, 0)))
              D        == (Dec(25, -10) ++ (Dec(1666, -12) ** SP))
                          -- (Dec(7125, -15) ** Math_pow(SP, Dec(2, 0)))
              cp_sw_P0 == Dec(1000, 0)
                          ** (A
                              ++ (B ** T68)
                              ++ (C ** Math_pow(T68, Dec(2, 0)))
                              ++ (D ** Math_pow(T68, Dec(3, 0))))
              c1       == Dec(-31118, -4)
              c2       == Dec(157, -4)
              c3       == Dec(51014, -9)
              c4       == Dec(-10302, -10)
              c5       == Dec(107, -4)
              c6       == Dec(-39716, -9)
              c7       == Dec(32088, -12)
              c8       == Dec(10119, -13)
              cp_sw_P  == (P -- P0)
                          ** (c1
                              ++ (c2 ** T)
                              ++ (c3 ** Math_pow(T, Dec(2, 0)))
                              ++ (c4 ** Math_pow(T, Dec(3, 0)))
                              ++ (S
                                  ** (c5
                                      ++ (c6 ** T)
                                      ++ (c7 ** Math_pow(T, Dec(2, 0)))
                                      ++ (c8 ** Math_pow(T, Dec(3, 0))))))
          IN
              Ref(P0, Ret(cp_sw_P0 ++ cp_sw_P, SubLog(<<P_sat_c, P0_c>>)))

SW_SpcHeat_with_P_sat(T, S, P, P_sat_c) ==
    LET P_sat == P_sat_c.val
    IN
        IF ~AllOk(<<P_sat_c>>) THEN Propagate(<<P_sat_c>>)
        ELSE IF OutOf(P, P_sat, Dec(12, 0))
          THEN Throw("SW_SpcHeat", "Pressure", SubLog(<<P_sat_c>>))
        ELSE SW_SpcHeat_with_P0(T, S, P, P_sat_c,
                                IF Lt(T, Dec(100, 0)) THEN Lit(Dec(101325, -6))
                                ELSE Over(SW_Psat(T, S), Dec(1, 6)))

SW_SpcHeat(T, S, P) ==
    Called("SW_SpcHeat", <<T, S, P>>,
      IF OutOf(T, Dec(0, 0), Dec(180, 0))
        THEN Throw("SW_SpcHeat", "Temperature", NoLog)
      ELSE IF OutOf(S, Dec(0, 0), Dec(180, 0))
        THEN Throw("SW_SpcHeat", "Salinity", NoLog)
      ELSE SW_SpcHeat_with_P_sat(T, S, P,
                                 Over(SW_Psat(T, S), Dec(1, 6))))

\* SW_Diffusivity written K / rho * cp: the heat capacity multiplies
SW_Diffusivity_times_cp(T, S, P0_c, rho_c, cp_c, K_c) ==
    LET P0  == P0_c.val
        rho == rho_c.val
        cp  == cp_c.val
        K   == K_c.val
    IN
        IF ~AllOk(<<P0_c, rho_c, cp_c, K_c>>) THEN Ref(P0, Propagate(<<P0_c, rho_c, cp_c, K_c>>))
        ELSE Ref(P0, Ret((K // rho) ** cp, SubLog(<<P0_c, rho_c, cp_c, K_c>>)))

SW_Diffusivity_with_K(T, S, P0_c, rho_c, cp_c, K_c) ==
    LET P0  == P0_c.val
        rho == rho_c.val
        cp  == cp_c.val
        K   == K_c.val
    IN
        IF ~AllOk(<<P0_c, rho_c, cp_c, K_c>>) THEN Ref(P0, Propagate(<<P0_c, rho_c, cp_c, K_c>>))
        ELSE Ref(P0, Ret(K // (rho ** cp), SubLog(<<P0_c, rho_c, cp_c, K_c>>)))

SW_Diffusivity_with_P0(T, S, P0_c) ==
    LET P0 == P0_c.val
    IN
        IF ~AllOk(<<P0_c>>) THEN Propagate(<<P0_c>>)
        ELSE SW_Diffusivity_with_K(T, S, P0_c,
                                   SW_Density(T, S, P0),
                                   SW_SpcHeat(T, S, P0),
                                   SW_Conductivity(T, S))

SW_Diffusivity(T, S) ==
    Called("SW_Diffusivity", <<T, S>>,
      IF OutOf(T, Dec(0, 0), Dec(180, 0))
        THEN Throw("SW_Diffusivity", "Temperature", NoLog)
      ELSE IF OutOf(S, Dec(0, 0), Dec(150, 0))
        THEN Throw("SW_Diffusivity", "Salinity", NoLog)
      ELSE SW_Diffusivity_with_P0(T, S,
                                  IF Lt(T, Dec(100, 0)) THEN Lit(Dec(101325, -6))
                                  ELSE Over(SW_Psat(T, S), Dec(1, 6))))

SW_Enthalpy_with_P0(T, S, P, P_sat_c, P0_c) ==
    LET P_sat == P_sat_c.val
        P0    == P0_c.val
    IN
        IF ~AllOk(<<P_sat_c, P0_c>>) THEN Propagate(<<P_sat_c, P0_c>>)
        ELSE
          LET S_kgkg == S // Dec(1000, 0)
              h_w    == ((Dec(141355, -3) ++ (Dec(420207, -2) ** T))
                            -- (Dec(535, -3) ** Math_pow(T, Dec(2, 0))))
                        ++ (Dec(4, -3) ** Math_pow(T, Dec(3, 0)))
              b1     == Dec(-234825, -1)
              b2     == Dec(315183, 0)
              b3     == Dec(280269, 1)
              b4     == Dec(-144606, 2)
              b5     == Dec(782607, -2)
              b6     == Dec(-441733, -4)
              b7     == Dec(21394, -5)
              b8     == Dec(-199108, -1)
              b9     == Dec(277846, -1)
              b10    == Dec(972801, -4)
              c1     == Dec(9967767, -4)
              c2     == Dec(-32406, -4)
              c3     == Dec(127, -4)
              c4     == Dec(-47723, -9)
              c5     == Dec(-11748, -4)
              c6     == Dec(1169, -5)
              c7     == Dec(-26185, -9)
              c8     == Dec(70661, -12)
              h_sw_P == (P -- P0)
                        ** (c1
                            ++ (c2 ** T)
                            ++ (c3 ** Math_pow(T, Dec(2, 0)))
                            ++ (c4 ** Math_pow(T, Dec(3, 0)))
                            ++ (S
                                ** (c5
                                    ++ (c6 ** T)
                                    ++ (c7 ** Math_pow(T, Dec(2, 0)))
                                    ++ (c8 ** Math_pow(T, Dec(3, 0))))))
          IN
              Ref(P0, Ret((h_w
                                -- (S_kgkg
                                    ** (b1
                                        ++ (b2 ** S_kgkg)
                                        ++ (b3 ** Math_pow(S_kgkg, Dec(2, 0)))
                                        ++ (b4 ** Math_pow(S_kgkg, Dec(3, 0)))
                                        ++ (b5 ** T)
                                        ++ (b6 ** Math_pow(T, Dec(2, 0)))
                                        ++ (b7 ** Math_pow(T, Dec(3, 0)))
                                        ++ (b8 ** S_kgkg ** T)
                                        ++ (b9 ** Math_pow(S_kgkg, Dec(2, 0)) ** T)
                                        ++ (b10 ** S_kgkg ** Math_pow(T, Dec(2, 0))))))
                            ++ h_sw_P, SubLog(<<P_sat_c, P0_c>>)))

SW_Enthalpy_with_P_sat(T, S, P, P_sat_c) ==
    LET P_sat == P_sat_c.val
    IN
        IF ~AllOk(<<P_sat_c>>) THEN Propagate(<<P_sat_c>>)
        ELSE IF OutOf(P, P_sat, Dec(12, 0))
          THEN Throw("SW_Enthalpy", "Pressure", SubLog(<<P_sat_c>>))
        ELSE SW_Enthalpy_with_P0(T, S, P, P_sat_c,
                                 IF Lt(T, Dec(100, 0)) THEN Lit(Dec(101325, -6))
                                 ELSE Over(SW_Psat(T, S), Dec(1, 6)))

SW_Enthalpy(T, S, P) ==
    Called("SW_Enthalpy", <<T, S, P>>,
      IF OutOf(T, Dec(10, 0), Dec(120, 0))
        THEN Throw("SW_Enthalpy", "Temperature", NoLog)
      ELSE IF OutOf(S, Dec(0, 0), Dec(120, 0))
        THEN Throw("SW_Enthalpy", "Salinity", NoLog)
      ELSE SW_Enthalpy_with_P_sat(T, S, P,
                                  Over(SW_Psat(T, S), Dec(1, 6))))

SW_Entropy_with_P0(T, S, P, P_sat_c, P0_c) ==
    LET P_sat == P_sat_c.val
        P0    == P0_c.val
    IN
        IF ~AllOk(<<P_sat_c, P0_c>>) THEN Propagate(<<P_sat_c, P0_c>>)
        ELSE
          LET S_kgkg == S // Dec(1000, 0)
              a1     == Dec(15432265, -8)
              a2     == Dec(153827, -4)
              a3     == Dec(-29963212, -9)
              a4     == Dec(81929151, -12)
              a5     == Dec(-1369964, -13)
              s_w    == a1
                        ++ (a2 ** T)
                        ++ (a3 ** Math_pow(T, Dec(2, 0)))
                        ++ (a4 ** Math_pow(T, Dec(3, 0)))
                        ++ (a5 ** Math_pow(T, Dec(4, 0)))
              b1     == Dec(-42307344, -5)
              b2     == Dec(14630335, -3)
              b3     == Dec(-98796298, -3)
              b4     == Dec(30946225, -2)
              b5     == Dec(25623881, -6)
              b6     == Dec(-14432347, -8)
              b7     == Dec(58790569, -11)
              b8     == Dec(-61106764, -6)
              b9     == Dec(80408002, -6)
              b10    == Dec(30354283, -8)
              c1     == Dec(-44786, -7)
              c2     == Dec(-11654, -6)
              c3     == Dec(61154, -9)
              c4     == Dec(-20696, -11)
              c5     == Dec(-15531, -7)
              c6     == Dec(40054, -9)
              c7     == Dec(-14193, -11)
              c8     == Dec(33142, -14)
              s_sw_P == (P -- P0)
                        ** (c1
                            ++ (c2 ** T)
                            ++ (c3 ** Math_pow(T, Dec(2, 0)))
                            ++ (c4 ** Math_pow(T, Dec(3, 0)))
                            ++ (S
                                ** (c5
                                    ++ (c6 ** T)
                                    ++ (c7 ** Math_pow(T, Dec(2, 0)))
                                    ++ (c8 ** Math_pow(T, Dec(3, 0))))))
          IN
              Ref(P0, Ret((s_w
                                -- (S_kgkg
                                    ** (b1
                                        ++ (b2 ** S_kgkg)
                                        ++ (b3 ** Math_pow(S_kgkg, Dec(2, 0)))
                                        ++ (b4 ** Math_pow(S_kgkg, Dec(3, 0)))
                                        ++ (b5 ** T)
                                        ++ (b6 ** Math_pow(T, Dec(2, 0)))
                                        ++ (b7 ** Math_pow(T, Dec(3, 0)))
                                        ++ (b8 ** S_kgkg ** T)
                                        ++ (b9 ** Math_pow(S_kgkg, Dec(2, 0)) ** T)
                                        ++ (b10 ** S_kgkg ** Math_pow(T, Dec(2, 0))))))
                            ++ s_sw_P, SubLog(<<P_sat_c, P0_c>>)))

SW_Entropy_with_P_sat(T, S, P, P_sat_c) ==
    LET P_sat == P_sat_c.val
    IN
        IF ~AllOk(<<P_sat_c>>) THEN Propagate(<<P_sat_c>>)
        ELSE IF OutOf(P, P_sat, Dec(12, 0))
          THEN Throw("SW_Entropy", "Pressure", SubLog(<<P_sat_c>>))
        ELSE SW_Entropy_with_P0(T, S, P, P_sat_c,
                                IF Lt(T, Dec(100, 0)) THEN Lit(Dec(101325, -6))
                                ELSE Over(SW_Psat(T, S), Dec(1, 6)))

SW_Entropy(T, S, P) ==
    Called("SW_Entropy", <<T, S, P>>,
      IF OutOf(T, Dec(10, 0), Dec(120, 0))
        THEN Throw("SW_Entropy", "Temperature", NoLog)
      ELSE IF OutOf(S, Dec(0, 0), Dec(120, 0))
        THEN Throw("SW_Entropy", "Salinity", NoLog)
      ELSE SW_Entropy_with_P_sat(T, S, P,
                                 Over(SW_Psat(T, S), Dec(1, 6))))

SW_FlowExergy_with_mu_w_star(T, S, P, T0, S0, P0, P_sat_c, h_sw_c, s_sw_c, h_sw_star_c, s_sw_star_c, mu_w_star_c) ==
    LET P_sat     == P_sat_c.val
        h_sw      == h_sw_c.val
        s_sw      == s_sw_c.val
        h_sw_star == h_sw_star_c.val
        s_sw_star == s_sw_star_c.val
        mu_w_star == mu_w_star_c.val
    IN
        IF ~AllOk(<<P_sat_c, h_sw_c, s_sw_c, h_sw_star_c, s_sw_star_c, mu_w_star_c>>) THEN Propagate(<<P_sat_c, h_sw_c, s_sw_c, h_sw_star_c, s_sw_star_c, mu_w_star_c>>)
        ELSE NotDefined("SW_FlowExergy", "SW_SChemPot_s", SubLog(<<P_sat_c, h_sw_c, s_sw_c, h_sw_star_c, s_sw_star_c, mu_w_star_c>>))

SW_FlowExergy_with_P0(T, S, P, T0, S0, P0, P_sat_c) ==
    LET P_sat == P_sat_c.val
    IN
        IF Lt(S0, Dec(1, -1))
          THEN Throw("SW_FlowExergy", "Reference salinity", SubLog(<<P_sat_c>>))
        ELSE SW_FlowExergy_with_mu_w_star(T, S, P, T0, S0, P0, P_sat_c,
                                          SW_Enthalpy(T, S, P),
                                          SW_Entropy(T, S, P),
                                          SW_Enthalpy(T0, S, P0),
                                          SW_Entropy(T0, S, P0),
                                          SW_ChemPot_w(T0, S, P0))

SW_FlowExergy_with_P_sat(T, S, P, T0, S0, P0, P_sat_c) ==
    LET P_sat == P_sat_c.val
    IN
        IF ~AllOk(<<P_sat_c>>) THEN Propagate(<<P_sat_c>>)
        ELSE IF OutOf(P, P_sat, Dec(12, 0))
          THEN Throw("SW_FlowExergy", "Pressure", SubLog(<<P_sat_c>>))
        ELSE SW_FlowExergy_with_P0(T,
                                   S,
                                   P,
                                   IF Falsy(T0) THEN Dec(25, 0) ELSE T0,
                                   IF Falsy(S0) THEN Dec(35, 0) ELSE S0,
                                   IF Falsy(P0) THEN Dec(101325, -6) ELSE P0,
                                   P_sat_c)

SW_FlowExergy(T, S, P, T0, S0, P0) ==
    Called("SW_FlowExergy", <<T, S, P, T0, S0, P0>>,
      IF OutOf(T, Dec(10, 0), Dec(80, 0))
        THEN Throw("SW_FlowExergy", "Temperature", NoLog)
      ELSE IF OutOf(S, Dec(0, 0), Dec(120, 0))
        THEN Throw("SW_FlowExergy", "Salinity", NoLog)
      ELSE SW_FlowExergy_with_P_sat(T, S, P, T0, S0, P0,
                                    Over(SW_Psat(T, S), Dec(1, 6))))

SW_IntEnergy_with_h(T, S, P, P_sat_c, rho_c, h_c) ==
    LET P_sat == P_sat_c.val
        rho   == rho_c.val
        h     == h_c.val
    IN
        IF ~AllOk(<<P_sat_c, rho_c, h_c>>) THEN Propagate(<<P_sat_c, rho_c, h_c>>)
        ELSE Ret(h -- ((P ** Dec(1, 6)) // rho), SubLog(<<P_sat_c, rho_c, h_c>>))

SW_IntEnergy_with_P_sat(T, S, P, P_sat_c) ==
    LET P_sat == P_sat_c.val
    IN
        IF ~AllOk(<<P_sat_c>>) THEN Propagate(<<P_sat_c>>)
        ELSE IF OutOf(P, P_sat, Dec(12, 0))
          THEN Throw("SW_IntEnergy", "Pressure", SubLog(<<P_sat_c>>))
        ELSE SW_IntEnergy_with_h(T, S, P, P_sat_c,
                                 SW_Density(T, S, P),
                                 SW_Enthalpy(T, S, P))

SW_IntEnergy(T, S, P) ==
    Called("SW_IntEnergy", <<T, S, P>>,
      IF OutOf(T, Dec(10, 0), Dec(120, 0))
        THEN Throw("SW_IntEnergy", "Temperature", NoLog)
      ELSE IF OutOf(S, Dec(0, 0), Dec(120, 0))
        THEN Throw("SW_IntEnergy", "Salinity", NoLog)
      ELSE SW_IntEnergy_with_P_sat(T, S, P,
                                   Over(SW_Psat(T, S), Dec(1, 6))))

SW_IsobExp_with_P0(T, S, P, P_sat_c, P0_c) ==
    LET P_sat == P_sat_c.val
        P0    == P0_c.val
    IN
        IF ~AllOk(<<P_sat_c, P0_c>>) THEN Propagate(<<P_sat_c, P0_c>>)
        ELSE
          LET S_kgkg          == S // Dec(1000, 0)
              a1              == Dec(99992293, -5)
              a2              == Dec(20341179, -9)
              a3              == Dec(-61624592, -10)
              a4              == Dec(22614665, -12)
              a5              == Dec(-46570659, -15)
              b1              == Dec(80200241, -5)
              b2              == Dec(-20005183, -7)
              b3              == Dec(16771025, -9)
              b4              == Dec(-30600537, -12)
              b5              == Dec(-16132225, -12)
              drho_wdT        == a2
                                 ++ (Dec(2, 0) ** a3 ** T)
                                 ++ (Dec(3, 0) ** a4 ** Math_pow(T, Dec(2, 0)))
                                 ++ (Dec(4, 0) ** a5 ** Math_pow(T, Dec(3, 0)))
              dD_rhodT        == (b2 ** S_kgkg)
                                 ++ (Dec(2, 0) ** b3 ** S_kgkg ** T)
                                 ++ (Dec(3, 0)
                                     ** b4
                                     ** S_kgkg
                                     ** Math_pow(T, Dec(2, 0)))
                                 ++ (Dec(2, 0)
                                     ** b5
                                     ** Math_pow(S_kgkg, Dec(2, 0))
                                     ** T)
              rho_w           == a1
                                 ++ (a2 ** T)
                                 ++ (a3 ** Math_pow(T, Dec(2, 0)))
                                 ++ (a4 ** Math_pow(T, Dec(3, 0)))
                                 ++ (a5 ** Math_pow(T, Dec(4, 0)))
              D_rho           == (b1 ** S_kgkg)
                                 ++ (b2 ** S_kgkg ** T)
                                 ++ (b3 ** S_kgkg ** Math_pow(T, Dec(2, 0)))
                                 ++ (b4 ** S_kgkg ** Math_pow(T, Dec(3, 0)))
                                 ++ (b5
                                     ** Math_pow(S_kgkg, Dec(2, 0))
                                     ** Math_pow(T, Dec(2, 0)))
              rho_sw_sharq    == rho_w ++ D_rho
              drho_sw_sharqdT == drho_wdT ++ dD_rhodT
              c1              == Dec(50792, -8)
              c2              == Dec(-34168, -10)
              c3              == Dec(56931, -12)
              c4              == Dec(-37263, -14)
              c5              == Dec(14465, -16)
              c6              == Dec(-17058, -19)
              c7              == Dec(-13389, -10)
              c8              == Dec(48603, -13)
              c9              == Dec(-68039, -17)
              d1              == Dec(-11077, -10)
              d2              == Dec(55584, -13)
              d3              == Dec(-42539, -15)
              d4              == Dec(83702, -13)
              F_P             == Math_exp(((P -- P0)
                                              ** (c1
                                                  ++ (c2 ** T)
                                                  ++ (c3 ** Math_pow(T, Dec(2, 0)))
                                                  ++ (c4 ** Math_pow(T, Dec(3, 0)))
                                                  ++ (c5 ** Math_pow(T, Dec(4, 0)))
                                                  ++ (c6 ** Math_pow(T, Dec(5, 0)))
                                                  ++ (S
                                                      ** (d1
                                                          ++ (d2 ** T)
                                                          ++ (d3
                                                              ** Math_pow(T,
                                                                           Dec(2, 0)))))))
                                          ++ (Dec(5, -1)
                                              ** (Math_pow(P, Dec(2, 0))
                                                  -- Math_pow(P0, Dec(2, 0)))
                                              ** (c7
                                                  ++ (c8 ** T)
                                                  ++ (c9 ** Math_pow(T, Dec(3, 0)))
                                                  ++ (d4 ** S))))
              dF_PdT          == F_P
                                 ** (((P -- P0)
                                         ** (c2
                                             ++ (Dec(2, 0) ** c3 ** T)
                                             ++ (Dec(3, 0)
                                                 ** c4
                                                 ** Math_pow(T, Dec(2, 0)))
                                             ++ (Dec(4, 0)
                                                 ** c5
                                                 ** Math_pow(T, Dec(3, 0)))
                                             ++ (Dec(5, 0)
                                                 ** c6
                                                 ** Math_pow(T, Dec(4, 0)))
                                             ++ (S ** (d2 ++ (Dec(2, 0) ** d3 ** T)))))
                                     ++ (Dec(5, -1)
                                         ** (Math_pow(P, Dec(2, 0))
                                             -- Math_pow(P0, Dec(2, 0)))
                                         ** (c8
                                             ++ (Dec(3, 0)
                                                 ** c9
                                                 ** Math_pow(T, Dec(2, 0))))))
              rho             == rho_sw_sharq ** F_P
              drho_dT         == (drho_sw_sharqdT ** F_P) ++ (rho_sw_sharq ** dF_PdT)
          IN
              Ref(P0, Ret(FNeg(drho_dT) // rho, SubLog(<<P_sat_c, P0_c>>)))

SW_IsobExp_with_P_sat(T, S, P, P_sat_c) ==
    LET P_sat == P_sat_c.val
    IN
        IF ~AllOk(<<P_sat_c>>) THEN Propagate(<<P_sat_c>>)
        ELSE IF OutOf(P, P_sat, Dec(12, 0))
          THEN Throw("SW_IsobExp", "Pressure", SubLog(<<P_sat_c>>))
        ELSE SW_IsobExp_with_P0(T, S, P, P_sat_c,
                                IF Lt(T, Dec(100, 0)) THEN Lit(Dec(101325, -6))
                                ELSE Over(SW_Psat(T, S), Dec(1, 6)))

SW_IsobExp(T, S, P) ==
    Called("SW_IsobExp", <<T, S, P>>,
      IF OutOf(T, Dec(0, 0), Dec(180, 0))
        THEN Throw("SW_IsobExp", "Temperature", NoLog)
      ELSE IF OutOf(S, Dec(0, 0), Dec(150, 0))
        THEN Throw("SW_IsobExp", "Salinity", NoLog)
      ELSE SW_IsobExp_with_P_sat(T, S, P,
                                 Over(SW_Psat(T, S), Dec(1, 6))))

SW_IsothComp_with_P_sat(T, S, P, P_sat_c) ==
    LET P_sat == P_sat_c.val
    IN
        IF ~AllOk(<<P_sat_c>>) THEN Propagate(<<P_sat_c>>)
        ELSE IF OutOf(P, P_sat, Dec(12, 0))
          THEN Throw("SW_IsothComp", "Pressure", SubLog(<<P_sat_c>>))
        ELSE
          LET c1 == Dec(50792, -8)
              c2 == Dec(-34168, -10)
              c3 == Dec(56931, -12)
              c4 == Dec(-37263, -14)
              c5 == Dec(14465, -16)
              c6 == Dec(-17058, -19)
              c7 == Dec(-13389, -10)
              c8 == Dec(48603, -13)
              c9 == Dec(-68039, -17)
              d1 == Dec(-11077, -10)
              d2 == Dec(55584, -13)
              d3 == Dec(-42539, -15)
              d4 == Dec(83702, -13)
          IN
              Ret(c1
                            ++ (c2 ** T)
                            ++ (c3 ** Math_pow(T, Dec(2, 0)))
                            ++ (c4 ** Math_pow(T, Dec(3, 0)))
                            ++ (c5 ** Math_pow(T, Dec(4, 0)))
                            ++ (c6 ** Math_pow(T, Dec(5, 0)))
                            ++ (P
                                ** (c7 ++ (c8 ** T) ++ (c9 ** Math_pow(T, Dec(3, 0)))))
                            ++ (S
                                ** (d1
                                    ++ (d2 ** T)
                                    ++ (d3 ** Math_pow(T, Dec(2, 0)))
                                    ++ (d4 ** P))), SubLog(<<P_sat_c>>))

SW_IsothComp(T, S, P) ==
    Called("SW_IsothComp", <<T, S, P>>,
      IF OutOf(T, Dec(0, 0), Dec(180, 0))
        THEN Throw("SW_IsothComp", "Temperature", NoLog)
      ELSE IF OutOf(S, Dec(0, 0), Dec(160, 0))
        THEN Throw("SW_IsothComp", "Salinity", NoLog)
      ELSE SW_IsothComp_with_P_sat(T, S, P,
                                   Over(SW_Psat(T, S), Dec(1, 6))))

SW_Viscosity(T, S) ==
    Called("SW_Viscosity", <<T, S>>,
      IF OutOf(T, Dec(0, 0), Dec(180, 0))
        THEN Throw("SW_Viscosity", "Temperature", NoLog)
      ELSE IF OutOf(S, Dec(0, 0), Dec(150, 0))
        THEN Throw("SW_Viscosity", "Salinity", NoLog)
      ELSE
        LET S_kgkg == S // Dec(1000, 0)
            a1     == Dec(15700386, -8)
            a2     == Dec(6499262, -5)
            a3     == Dec(-91296497, -6)
            a4     == Dec(42844324, -12)
            mu_w   == a4
                      ++ (Dec(1, 0) // ((a1 ** Math_pow(T ++ a2, Dec(2, 0))) ++ a3))
            a5     == Dec(15409136, -7)
            a6     == Dec(19981117, -9)
            a7     == Dec(-95203866, -12)
            a8     == Dec(79739318, -7)
            a9     == Dec(-75614569, -9)
            a10    == Dec(47237011, -11)
            A      == a5 ++ (a6 ** T) ++ (a7 ** Math_pow(T, Dec(2, 0)))
            B      == a8 ++ (a9 ** T) ++ (a10 ** Math_pow(T, Dec(2, 0)))
        IN
            Ret(mu_w
                          ** (Dec(1, 0)
                              ++ (A ** S_kgkg)
                              ++ (B ** Math_pow(S_kgkg, Dec(2, 0)))), NoLog))

SW_Kviscosity_with_mu(T, S, P0_c, rho_c, mu_c) ==
    LET P0  == P0_c.val
        rho == rho_c.val
        mu  == mu_c.val
    IN
        IF ~AllOk(<<P0_c, rho_c, mu_c>>) THEN Ref(P0, Propagate(<<P0_c, rho_c, mu_c>>))
        ELSE Ref(P0, Ret(mu // rho, SubLog(<<P0_c, rho_c, mu_c>>)))

\* SW_Kviscosity passing S / 1000, kg/kg, to SW_Viscosity
SW_Kviscosity_in_kg_per_kg(T, S, P0_c) ==
    LET P0 == P0_c.val
    IN
        IF ~AllOk(<<P0_c>>) THEN Propagate(<<P0_c>>)
        ELSE SW_Kviscosity_with_mu(T, S, P0_c,
                                   SW_Density(T, S, P0),
                                   SW_Viscosity(T, S // Dec(1000, 0)))

SW_Kviscosity_with_P0(T, S, P0_c) ==
    LET P0 == P0_c.val
    IN
        IF ~AllOk(<<P0_c>>) THEN Propagate(<<P0_c>>)
        ELSE SW_Kviscosity_with_mu(T, S, P0_c,
                                   SW_Density(T, S, P0),
                                   SW_Viscosity(T, S))

\* SW_Kviscosity with T > 100 for T >= 100: at 100 C it keeps 0.101325 MPa
SW_Kviscosity_above_100(T, S) ==
    Called("SW_Kviscosity", <<T, S>>,
      IF OutOf(T, Dec(0, 0), Dec(180, 0))
        THEN Throw("SW_Kviscosity", "Temperature", NoLog)
      ELSE IF OutOf(S, Dec(0, 0), Dec(150, 0))
        THEN Throw("SW_Kviscosity", "Salinity", NoLog)
      ELSE SW_Kviscosity_with_P0(T, S,
                                 IF Gt(T, Dec(100, 0)) THEN Over(SW_Psat(T, S), Dec(1, 6))
                                 ELSE Lit(Dec(101325, -6))))

SW_Kviscosity(T, S) ==
    Called("SW_Kviscosity", <<T, S>>,
      IF OutOf(T, Dec(0, 0), Dec(180, 0))
        THEN Throw("SW_Kviscosity", "Temperature", NoLog)
      ELSE IF OutOf(S, Dec(0, 0), Dec(150, 0))
        THEN Throw("SW_Kviscosity", "Salinity", NoLog)
      ELSE SW_Kviscosity_with_P0(T, S,
                                 IF Ge(T, Dec(100, 0)) THEN Over(SW_Psat(T, S), Dec(1, 6))
                                 ELSE Lit(Dec(101325, -6))))

SW_LatentHeat(T, S) ==
    Called("SW_LatentHeat", <<T, S>>,
      IF OutOf(T, Dec(0, 0), Dec(200, 0))
        THEN Throw("SW_LatentHeat", "Temperature", NoLog)
      ELSE IF OutOf(S, Dec(0, 0), Dec(240, 0))
        THEN Throw("SW_LatentHeat", "Salinity", NoLog)
      ELSE
        LET a1    == Dec(25008991, -1)
            a2    == Dec(-23691806, -4)
            a3    == Dec(26776439, -8)
            a4    == Dec(-81027545, -10)
            a5    == Dec(-20799347, -12)
            hfg_w == a1
                     ++ (a2 ** T)
                     ++ (a3 ** Math_pow(T, Dec(2, 0)))
                     ++ (a4 ** Math_pow(T, Dec(3, 0)))
                     ++ (a5 ** Math_pow(T, Dec(4, 0)))
        IN
            Ret(hfg_w ** (Dec(1, 0) -- (Dec(1, -3) ** S)), NoLog))

SW_OsmCoeff(T, S) ==
    Called("SW_OsmCoeff", <<T, S>>,
      IF OutOf(T, Dec(0, 0), Dec(120, 0))
        THEN Throw("SW_OsmCoeff", "Temperature", NoLog)
      ELSE IF OutOf(S, Dec(0, 0), Dec(120, 0))
        THEN Throw("SW_OsmCoeff", "Salinity", NoLog)
      ELSE
        LET a1   == Dec(89453233, -8)
            a2   == Dec(41560737, -11)
            a3   == Dec(-46262121, -13)
            a4   == Dec(22211196, -18)
            a5   == Dec(-11445456, -11)
            a6   == Dec(-14783462, -13)
            a7   == Dec(-13526263, -18)
            a8   == Dec(70132356, -13)
            a9   == Dec(56960487, -15)
            a10  == Dec(-28624033, -17)
            MW_s == Dec(31403822, -6)
        IN
            IF Le(S, Dec(10, 0))
            THEN LET S_eq         == Dec(10, 0)
                     Phi_corr_eq  == a1
                                     ++ (a2 ** T)
                                     ++ (a3 ** Math_pow(T, Dec(2, 0)))
                                     ++ (a4 ** Math_pow(T, Dec(4, 0)))
                                     ++ (a5 ** S_eq)
                                     ++ (a6 ** T ** S_eq)
                                     ++ (a7 ** S_eq ** Math_pow(T, Dec(3, 0)))
                                     ++ (a8 ** Math_pow(S_eq, Dec(2, 0)))
                                     ++ (a9 ** Math_pow(S_eq, Dec(2, 0)) ** T)
                                     ++ (a10
                                         ** Math_pow(S_eq, Dec(2, 0))
                                         ** Math_pow(T, Dec(2, 0)))
                     dPhi_corr_eq == a5
                                     ++ (a6 ** T)
                                     ++ (a7 ** Math_pow(T, Dec(3, 0)))
                                     ++ (Dec(2, 0) ** a8 ** S_eq)
                                     ++ (Dec(2, 0) ** a9 ** S_eq ** T)
                                     ++ (Dec(2, 0)
                                         ** a10
                                         ** S_eq
                                         ** Math_pow(T, Dec(2, 0)))
                     m_sum_eq     == (S_eq // (Dec(1000, 0) -- S_eq))
                                     ** (Dec(1000, 0) // MW_s)
                     dmds_eq      == (Dec(1000, 0) // MW_s)
                                     ** ((Dec(1, 0) // (Dec(1000, 0) -- S_eq))
                                         ++ (S_eq
                                             // Math_pow(Dec(1000, 0) -- S_eq,
                                                          Dec(2, 0))))
                     beta         == Dec(-2, 0)
                                     ** ((Math_pow(m_sum_eq, Dec(-5, -1))
                                             ** (Phi_corr_eq -- Dec(1, 0)))
                                         -- ((dPhi_corr_eq
                                                 ** Math_pow(m_sum_eq, Dec(5, -1)))
                                             // dmds_eq))
                     lambda       == ((Phi_corr_eq
                                             ++ (beta
                                                 ** Math_pow(m_sum_eq, Dec(5, -1))))
                                         -- Dec(1, 0))
                                     // m_sum_eq
                     m_sum        == (S // (Dec(1000, 0) -- S))
                                     ** (Dec(1000, 0) // MW_s)
                 IN  Ret((Dec(1, 0) -- (beta ** Math_pow(m_sum, Dec(5, -1))))
                         ++ (lambda ** m_sum), NoLog)
            ELSE Ret(a1
                     ++ (a2 ** T)
                     ++ (a3 ** Math_pow(T, Dec(2, 0)))
                     ++ (a4 ** Math_pow(T, Dec(4, 0)))
                     ++ (a5 ** S)
                     ++ (a6 ** T ** S)
                     ++ (a7 ** S ** Math_pow(T, Dec(3, 0)))
                     ++ (a8 ** Math_pow(S, Dec(2, 0)))
                     ++ (a9 ** Math_pow(S, Dec(2, 0)) ** T)
                     ++ (a10 ** Math_pow(S, Dec(2, 0)) ** Math_pow(T, Dec(2, 0))),
                     NoLog))

SW_OsmPress_with_rho_w_kgm3(T, S, Phi_c, P0_c, rho_w_kgm3_c) ==
    LET Phi        == Phi_c.val
        P0         == P0_c.val
        rho_w_kgm3 == rho_w_kgm3_c.val
    IN
        IF ~AllOk(<<Phi_c, P0_c, rho_w_kgm3_c>>) THEN Ref(P0, Propagate(<<Phi_c, P0_c, rho_w_kgm3_c>>))
        ELSE
          LET T_K   == T ++ Dec(27315, -2)
              Mw_sw == Dec(31403822, -6)
              R     == Dec(83144598, -7)
              m_sum == (Dec(1000, 0) ** S) // ((Dec(1000, 0) -- S) ** Mw_sw)
              Pi    == Phi ** m_sum ** R ** T_K ** rho_w_kgm3
          IN
              Ref(P0, Ret(Pi // Dec(1, 6), SubLog(<<Phi_c, P0_c, rho_w_kgm3_c>>)))

SW_OsmPress_with_P0(T, S, Phi_c, P0_c) ==
    LET Phi == Phi_c.val
        P0  == P0_c.val
    IN
        IF ~AllOk(<<Phi_c, P0_c>>) THEN Propagate(<<Phi_c, P0_c>>)
        ELSE SW_OsmPress_with_rho_w_kgm3(T, S, Phi_c, P0_c,
                                         SW_Density(T, Dec(0, 0), P0))

SW_OsmPress_with_Phi(T, S, Phi_c) ==
    LET Phi == Phi_c.val
    IN
        IF ~AllOk(<<Phi_c>>) THEN Propagate(<<Phi_c>>)
        ELSE SW_OsmPress_with_P0(T, S, Phi_c,
                                 IF Lt(T, Dec(100, 0)) THEN Lit(Dec(101325, -6))
                                 ELSE Over(SW_Psat(T, Dec(0, 0)), Dec(1, 6)))

SW_OsmPress(T, S) ==
    Called("SW_OsmPress", <<T, S>>,
      IF OutOf(T, Dec(0, 0), Dec(120, 0))
        THEN Throw("SW_OsmPress", "Temperature", NoLog)
      ELSE IF OutOf(S, Dec(0, 0), Dec(120, 0))
        THEN Throw("SW_OsmPress", "Salinity", NoLog)
      ELSE SW_OsmPress_with_Phi(T, S,
                                SW_OsmCoeff(T, S)))

SW_Prandtl_with_K(T, S, P0_c, cp_c, mu_c, K_c) ==
    LET P0 == P0_c.val
        cp == cp_c.val
        mu == mu_c.val
        K  == K_c.val
    IN
        IF ~AllOk(<<P0_c, cp_c, mu_c, K_c>>) THEN Ref(P0, Propagate(<<P0_c, cp_c, mu_c, K_c>>))
        ELSE Ref(P0, Ret((cp ** mu) // K, SubLog(<<P0_c, cp_c, mu_c, K_c>>)))

SW_Prandtl_with_P0(T, S, P0_c) ==
    LET P0 == P0_c.val
    IN
        IF ~AllOk(<<P0_c>>) THEN Propagate(<<P0_c>>)
        ELSE SW_Prandtl_with_K(T, S, P0_c,
                               SW_SpcHeat(T, S, P0),
                               SW_Viscosity(T, S),
                               SW_Conductivity(T, S))

SW_Prandtl(T, S) ==
    Called("SW_Prandtl", <<T, S>>,
      IF OutOf(T, Dec(0, 0), Dec(180, 0))
        THEN Throw("SW_Prandtl", "Temperature", NoLog)
      ELSE IF OutOf(S, Dec(0, 0), Dec(150, 0))
        THEN Throw("SW_Prandtl", "Salinity", NoLog)
      ELSE SW_Prandtl_with_P0(T, S,
                              IF Lt(T, Dec(100, 0)) THEN Lit(Dec(101325, -6))
                              ELSE Over(SW_Psat(T, S), Dec(1, 6))))

SW_SurfaceTension(T, S) ==
    Called("SW_SurfaceTension", <<T, S>>,
      IF OutOf(T, Dec(0, 0), Dec(100, 0))
        THEN Throw("SW_SurfaceTension", "Temperature", NoLog)
      ELSE IF OutOf(S, Dec(0, 0), Dec(131, 0))
        THEN Throw("SW_SurfaceTension", "Salinity", NoLog)
      ELSE
        LET T_K     == T ++ Dec(27315, -2)
            gamma_w == Dec(2358, -1)
                       ** Math_pow(Dec(1, 0) -- (T_K // Dec(647096, -3)),
                                    Dec(1256, -3))
                       ** (Dec(1, 0)
                           -- (Dec(625, -3) ** (Dec(1, 0) -- (T_K // Dec(647096, -3)))))
        IN
            Ret(gamma_w
                          ** (Dec(1, 0)
                              ++ (Dec(3766, -7) ** S)
                              ++ (Dec(2347, -9) ** S ** T)), NoLog))

\* SW_Volume as 1000 / rho: the volume of a gram, not of a kilogram
SW_Volume_per_gram(T, S, P, rho_c) ==
    LET rho == rho_c.val
    IN
        IF ~AllOk(<<rho_c>>) THEN Propagate(<<rho_c>>)
        ELSE Ret(Dec(1000, 0) // rho, SubLog(<<rho_c>>))

SW_Volume_with_rho(T, S, P, rho_c) ==
    LET rho == rho_c.val
    IN
        IF ~AllOk(<<rho_c>>) THEN Propagate(<<rho_c>>)
        ELSE Ret(Dec(1, 0) // rho, SubLog(<<rho_c>>))

SW_Volume(T, S, P) ==
    Called("SW_Volume", <<T, S, P>>,
      IF OutOf(T, Dec(0, 0), Dec(180, 0))
        THEN Throw("SW_Volume", "Temperature", NoLog)
      ELSE IF OutOf(S, Dec(0, 0), Dec(150, 0))
        THEN Throw("SW_Volume", "Salinity", NoLog)
      ELSE SW_Volume_with_rho(T, S, P,
                              SW_Density(T, S, P)))

----------------------------------------------------------------------------
(* The evaluator: operation op applied to the arguments a.  The operators,  *)
(* the literals and the Math functions are those of JavaScript; the other   *)
(* operations are the functions the library exports (module.exports), and   *)
(* the two functions that assign to their parameters resumed after the      *)
(* assignment: a[1] is what the call was entered with, a[2] the parameters   *)
(* as they are now.                                                         *)

Eval(op, a) ==
    CASE op = "*"                     -> FMul(a[1], a[2])
      [] op = "+"                     -> FAdd(a[1], a[2])
      [] op = "literal"               -> Num(a[1], a[2])
      [] op = "-"                     -> FSub(a[1], a[2])
      [] op = "/"                     -> FDiv(a[1], a[2])
      [] op = "Math.pow"              -> Pow(a[1], a[2])
      [] op = "<"                     -> FLt(a[1], a[2])
      [] op = ">"                     -> FGt(a[1], a[2])
      [] op = "<="                    -> FLe(a[1], a[2])
      [] op = ">="                    -> FGe(a[1], a[2])
      [] op = "Math.exp"              -> Exp(a[1])
      [] op = "Math.log"              -> Ln(a[1])
      [] op = "Math.log10"            -> Log10(a[1])
      [] op = "SW_Psat"               -> SW_Psat(a[1], a[2])
      [] op = "SW_BPE"                -> SW_BPE(a[1], a[2])
      [] op = "SW_ChemPot_s"          -> SW_ChemPot_s(a[1], a[2], a[3])
      [] op = "SW_ChemPot_w"          -> SW_ChemPot_w(a[1], a[2], a[3])
      [] op = "SW_Conductivity"       -> SW_Conductivity(a[1], a[2])
      [] op = "SW_ConductivityP"      -> SW_ConductivityP(a[1], a[2], a[3])
      [] op = "SW_Density"            -> SW_Density(a[1], a[2], a[3])
      [] op = "SW_Diffusivity"        -> SW_Diffusivity(a[1], a[2])
      [] op = "SW_Enthalpy"           -> SW_Enthalpy(a[1], a[2], a[3])
      [] op = "SW_Entropy"            -> SW_Entropy(a[1], a[2], a[3])
      [] op = "SW_FlowExergy"         -> SW_FlowExergy(a[1], a[2], a[3], a[4], a[5], a[6])
      [] op = "SW_Gibbs"              -> SW_Gibbs(a[1], a[2], a[3])
      [] op = "SW_IntEnergy"          -> SW_IntEnergy(a[1], a[2], a[3])
      [] op = "SW_IsobExp"            -> SW_IsobExp(a[1], a[2], a[3])
      [] op = "SW_IsothComp"          -> SW_IsothComp(a[1], a[2], a[3])
      [] op = "SW_Kviscosity"         -> SW_Kviscosity(a[1], a[2])
      [] op = "SW_LatentHeat"         -> SW_LatentHeat(a[1], a[2])
      [] op = "SW_OsmCoeff"           -> SW_OsmCoeff(a[1], a[2])
      [] op = "SW_OsmPress"           -> SW_OsmPress(a[1], a[2])
      [] op = "SW_Prandtl"            -> SW_Prandtl(a[1], a[2])
      [] op = "SW_SpcHeat"            -> SW_SpcHeat(a[1], a[2], a[3])
      [] op = "SW_SurfaceTension"     -> SW_SurfaceTension(a[1], a[2])
      [] op = "SW_Viscosity"          -> SW_Viscosity(a[1], a[2])
      [] op = "SW_Volume"             -> SW_Volume(a[1], a[2], a[3])
      [] op = "SW_BPE resumed"        -> Called("SW_BPE", a[1], SW_BPE_with_S(a[2][1], a[2][2]))
      [] op = "SW_FlowExergy resumed" -> Called("SW_FlowExergy", a[1],
            SW_FlowExergy_with_P0(a[2][1], a[2][2], a[2][3], a[2][4], a[2][5], a[2][6],
                                  Over(SW_Psat(a[2][1], a[2][2]), Dec(1, 6))))

----------------------------------------------------------------------------
(* The caller: one call into the library at a time.  The caller picks a     *)
(* function fn and arguments args and calls; the function runs to its end,  *)
(* which is outcome; the caller takes the outcome and is free to call       *)
(* again.  pc is "idle", "called" or "returned".                            *)

VARIABLES pc, fn, args, outcome

(* Several callers, their calls interleaved.  Caller c holds, in its own     *)
(* variables, the call it makes: holds[c] = <<function, arguments>>.  The   *)
(* call binds the function's parameters in a frame of its own, frame[c];    *)
(* the function's body assigns to its parameters there.  where[c] is        *)
(* "idle", "entered" or "ran", and result[c] the outcome of the call.       *)

VARIABLES where, holds, frame, result

single == <<pc, fn, args, outcome>>

several == <<where, holds, frame, result>>

vars == <<pc, fn, args, outcome, where, holds, frame, result>>

\* the inputs reach from -Below up to MaxT, MaxS and MaxP
Below == 1

MaxT == 210

MaxS == 250

MaxP == 13

\* every bound of a temperature guard, an inner point, a point beyond
Temps ==
    {Num(t, 0) : t \in {-Below, 0, 10, 40, 50, 80, 90, 100, 120, 180, 200, MaxT}}
        \cup {Num(9999, -2)}

\* every bound of a salinity guard, an inner point, a point beyond
Sals ==
    {Num(s, 0) : s \in {-Below, 0, 10, 35, 42, 120, 131, 150, 160, 180, 240, MaxS}}
        \cup {Num(1, -1)}

\* no pressure, atmospheric pressure, the upper bound, a point beyond
Pressures == {Num(0, 0), Num(101325, -6), Num(12, 0), Num(MaxP, 0)}

\* the dead states of the exergy calls: left out, falsy, out of range, valid
DeadTemps == {Undefined, Num(0, 0), Num(25, 0), Num(50, 0), Num(MaxT, 0)}

DeadSals ==
    {Undefined, Num(-Below, 0), Num(0, 0), Num(5, -2), Num(1, -1), Num(35, 0)}

DeadPress == {Undefined, Num(0, 0), Num(101325, -6), Num(12, 0)}

\* every state without a dead state; three valid states with every dead
\* state; states that are their own dead state
ExergyArgs ==
    {<<T, S, P, Undefined, Undefined, Undefined>> :
        T \in Temps, S \in Sals, P \in Pressures}
    \cup {<<a[1], a[2], a[3], T0, S0, P0>> :
            a \in {<<Num(10, 0), Num(35, 0), Num(101325, -6)>>,
                   <<Num(40, 0), Num(120, 0), Num(12, 0)>>,
                   <<Num(80, 0), Num(0, 0), Num(12, 0)>>},
            T0 \in DeadTemps, S0 \in DeadSals, P0 \in DeadPress}
    \cup {<<T, S, P, T, S, P>> :
            T \in {Num(10, 0), Num(40, 0), Num(80, 0)},
            S \in {Num(1, -1), Num(35, 0), Num(42, 0), Num(120, 0)},
            P \in {Num(101325, -6), Num(12, 0)}}

\* the functions of (T, S, P)
PressureFunctions ==
    {"SW_ChemPot_s", "SW_ChemPot_w", "SW_ConductivityP",
     "SW_Density", "SW_Enthalpy", "SW_Entropy",
     "SW_Gibbs", "SW_IntEnergy", "SW_IsobExp",
     "SW_IsothComp", "SW_SpcHeat", "SW_Volume"}

\* no outcome yet
Pending ==
    [ok |-> FALSE, val |-> NaN, kind |-> "pending", subject |-> "none",
     by |-> "none", p0 |-> NaN, log |-> <<>>]

\* the callers whose calls interleave
NCallers == 2

Callers == 1..NCallers

NoCall == <<"none", <<>>>>

Init ==
    /\ pc = "idle" /\ fn = "none" /\ args = <<>> /\ outcome = Pending
    /\ where = [c \in Callers |-> "idle"]
    /\ holds = [c \in Callers |-> NoCall]
    /\ frame = [c \in Callers |-> <<>>]
    /\ result = [c \in Callers |-> Pending]

Call_SW_BPE ==
    /\ pc = "idle"
    /\ \E T \in Temps, S \in Sals :
          /\ fn' = "SW_BPE"
          /\ args' = <<T, S>>
    /\ pc' = "called"
    /\ outcome' = Pending
    /\ UNCHANGED several

Call_SW_ChemPot_s ==
    /\ pc = "idle"
    /\ \E T \in Temps, S \in Sals, P \in Pressures :
          /\ fn' = "SW_ChemPot_s"
          /\ args' = <<T, S, P>>
    /\ pc' = "called"
    /\ outcome' = Pending
    /\ UNCHANGED several

Call_SW_ChemPot_w ==
    /\ pc = "idle"
    /\ \E T \in Temps, S \in Sals, P \in Pressures :
          /\ fn' = "SW_ChemPot_w"
          /\ args' = <<T, S, P>>
    /\ pc' = "called"
    /\ outcome' = Pending
    /\ UNCHANGED several

Call_SW_Conductivity ==
    /\ pc = "idle"
    /\ \E T \in Temps, S \in Sals :
          /\ fn' = "SW_Conductivity"
          /\ args' = <<T, S>>
    /\ pc' = "called"
    /\ outcome' = Pending
    /\ UNCHANGED several

Call_SW_ConductivityP ==
    /\ pc = "idle"
    /\ \E T \in Temps, S \in Sals, P \in Pressures :
          /\ fn' = "SW_ConductivityP"
          /\ args' = <<T, S, P>>
    /\ pc' = "called"
    /\ outcome' = Pending
    /\ UNCHANGED several

Call_SW_Density ==
    /\ pc = "idle"
    /\ \E T \in Temps, S \in Sals, P \in Pressures :
          /\ fn' = "SW_Density"
          /\ args' = <<T, S, P>>
    /\ pc' = "called"
    /\ outcome' = Pending
    /\ UNCHANGED several

Call_SW_Diffusivity ==
    /\ pc = "idle"
    /\ \E T \in Temps, S \in Sals :
          /\ fn' = "SW_Diffusivity"
          /\ args' = <<T, S>>
    /\ pc' = "called"
    /\ outcome' = Pending
    /\ UNCHANGED several

Call_SW_Enthalpy ==
    /\ pc = "idle"
    /\ \E T \in Temps, S \in Sals, P \in Pressures :
          /\ fn' = "SW_Enthalpy"
          /\ args' = <<T, S, P>>
    /\ pc' = "called"
    /\ outcome' = Pending
    /\ UNCHANGED several

Call_SW_Entropy ==
    /\ pc = "idle"
    /\ \E T \in Temps, S \in Sals, P \in Pressures :
          /\ fn' = "SW_Entropy"
          /\ args' = <<T, S, P>>
    /\ pc' = "called"
    /\ outcome' = Pending
    /\ UNCHANGED several

Call_SW_FlowExergy ==
    /\ pc = "idle"
    /\ \E a \in ExergyArgs :
          /\ fn' = "SW_FlowExergy"
          /\ args' = a
    /\ pc' = "called"
    /\ outcome' = Pending
    /\ UNCHANGED several

Call_SW_Gibbs ==
    /\ pc = "idle"
    /\ \E T \in Temps, S \in Sals, P \in Pressures :
          /\ fn' = "SW_Gibbs"
          /\ args' = <<T, S, P>>
    /\ pc' = "called"
    /\ outcome' = Pending
    /\ UNCHANGED several

Call_SW_IntEnergy ==
    /\ pc = "idle"
    /\ \E T \in Temps, S \in Sals, P \in Pressures :
          /\ fn' = "SW_IntEnergy"
          /\ args' = <<T, S, P>>
    /\ pc' = "called"
    /\ outcome' = Pending
    /\ UNCHANGED several

Call_SW_IsobExp ==
    /\ pc = "idle"
    /\ \E T \in Temps, S \in Sals, P \in Pressures :
          /\ fn' = "SW_IsobExp"
          /\ args' = <<T, S, P>>
    /\ pc' = "called"
    /\ outcome' = Pending
    /\ UNCHANGED several

Call_SW_IsothComp ==
    /\ pc = "idle"
    /\ \E T \in Temps, S \in Sals, P \in Pressures :
          /\ fn' = "SW_IsothComp"
          /\ args' = <<T, S, P>>
    /\ pc' = "called"
    /\ outcome' = Pending
    /\ UNCHANGED several

Call_SW_Kviscosity ==
    /\ pc = "idle"
    /\ \E T \in Temps, S \in Sals :
          /\ fn' = "SW_Kviscosity"
          /\ args' = <<T, S>>
    /\ pc' = "called"
    /\ outcome' = Pending
    /\ UNCHANGED several

Call_SW_LatentHeat ==
    /\ pc = "idle"
    /\ \E T \in Temps, S \in Sals :
          /\ fn' = "SW_LatentHeat"
          /\ args' = <<T, S>>
    /\ pc' = "called"
    /\ outcome' = Pending
    /\ UNCHANGED several

Call_SW_OsmCoeff ==
    /\ pc = "idle"
    /\ \E T \in Temps, S \in Sals :
          /\ fn' = "SW_OsmCoeff"
          /\ args' = <<T, S>>
    /\ pc' = "called"
    /\ outcome' = Pending
    /\ UNCHANGED several

Call_SW_OsmPress ==
    /\ pc = "idle"
    /\ \E T \in Temps, S \in Sals :
          /\ fn' = "SW_OsmPress"
          /\ args' = <<T, S>>
    /\ pc' = "called"
    /\ outcome' = Pending
    /\ UNCHANGED several

Call_SW_Psat ==
    /\ pc = "idle"
    /\ \E T \in Temps, S \in Sals :
          /\ fn' = "SW_Psat"
          /\ args' = <<T, S>>
    /\ pc' = "called"
    /\ outcome' = Pending
    /\ UNCHANGED several

Call_SW_Prandtl ==
    /\ pc = "idle"
    /\ \E T \in Temps, S \in Sals :
          /\ fn' = "SW_Prandtl"
          /\ args' = <<T, S>>
    /\ pc' = "called"
    /\ outcome' = Pending
    /\ UNCHANGED several

Call_SW_SpcHeat ==
    /\ pc = "idle"
    /\ \E T \in Temps, S \in Sals, P \in Pressures :
          /\ fn' = "SW_SpcHeat"
          /\ args' = <<T, S, P>>
    /\ pc' = "called"
    /\ outcome' = Pending
    /\ UNCHANGED several

Call_SW_SurfaceTension ==
    /\ pc = "idle"
    /\ \E T \in Temps, S \in Sals :
          /\ fn' = "SW_SurfaceTension"
          /\ args' = <<T, S>>
    /\ pc' = "called"
    /\ outcome' = Pending
    /\ UNCHANGED several

Call_SW_Viscosity ==
    /\ pc = "idle"
    /\ \E T \in Temps, S \in Sals :
          /\ fn' = "SW_Viscosity"
          /\ args' = <<T, S>>
    /\ pc' = "called"
    /\ outcome' = Pending
    /\ UNCHANGED several

Call_SW_Volume ==
    /\ pc = "idle"
    /\ \E T \in Temps, S \in Sals, P \in Pressures :
          /\ fn' = "SW_Volume"
          /\ args' = <<T, S, P>>
    /\ pc' = "called"
    /\ outcome' = Pending
    /\ UNCHANGED several

\* the caller passes the saturation pressure SW_Psat has just returned, in
\* MPa, to a function of (T, S, P), with the same T and S
Call_at_saturation ==
    /\ pc = "returned"
    /\ fn = "SW_Psat"
    /\ outcome.ok
    /\ \E f \in PressureFunctions :
          /\ fn' = f
          /\ args' = <<args[1], args[2], FDiv(outcome.val, Num(1, 6))>>
    /\ pc' = "called"
    /\ outcome' = Pending
    /\ UNCHANGED several

\* the function runs: it returns a number or throws
Return ==
    /\ pc = "called"
    /\ outcome' = Eval(fn, args)
    /\ pc' = "returned"
    /\ UNCHANGED <<fn, args>>
    /\ UNCHANGED several

\* the caller has the outcome
Done ==
    /\ pc = "returned"
    /\ pc' = "idle"
    /\ fn' = "none"
    /\ args' = <<>>
    /\ outcome' = Pending
    /\ UNCHANGED several

Next ==
    \/ Call_SW_BPE
    \/ Call_SW_ChemPot_s
    \/ Call_SW_ChemPot_w
    \/ Call_SW_Conductivity
    \/ Call_SW_ConductivityP
    \/ Call_SW_Density
    \/ Call_SW_Diffusivity
    \/ Call_SW_Enthalpy
    \/ Call_SW_Entropy
    \/ Call_SW_FlowExergy
    \/ Call_SW_Gibbs
    \/ Call_SW_IntEnergy
    \/ Call_SW_IsobExp
    \/ Call_SW_IsothComp
    \/ Call_SW_Kviscosity
    \/ Call_SW_LatentHeat
    \/ Call_SW_OsmCoeff
    \/ Call_SW_OsmPress
    \/ Call_SW_Psat
    \/ Call_SW_Prandtl
    \/ Call_SW_SpcHeat
    \/ Call_SW_SurfaceTension
    \/ Call_SW_Viscosity
    \/ Call_SW_Volume
    \/ Call_at_saturation
    \/ Return
    \/ Done

Spec == Init /\ [][Next]_vars

----------------------------------------------------------------------------
(* The interleaved calls *)

\* the calls the callers choose from: calls that return and calls that
\* throw, with and without a dead state
SomeCalls ==
    {<<"SW_BPE", <<Num(25, 0), Num(35, 0)>>>>,
     <<"SW_BPE", <<Num(50, 0), Num(120, 0)>>>>,
     <<"SW_Density", <<Num(25, 0), Num(35, 0), Num(101325, -6)>>>>,
     <<"SW_Density", <<Num(100, 0), Num(10, 0), Num(MaxP, 0)>>>>,
     <<"SW_OsmPress", <<Num(40, 0), Num(42, 0)>>>>,
     <<"SW_Diffusivity", <<Num(100, 0), Num(0, 0)>>>>,
     <<"SW_FlowExergy", <<Num(10, 0), Num(35, 0), Num(101325, -6),
                          Undefined, Undefined, Undefined>>>>,
     <<"SW_FlowExergy", <<Num(40, 0), Num(120, 0), Num(12, 0),
                          Num(50, 0), Num(5, -2), Num(12, 0)>>>>}

\* function f(a, b, ...): a call binds the arguments a to the parameters of
\* a frame that belongs to this call alone
Bind(fr, c, a) == [fr EXCEPT ![c] = a]

\* the parameters of f after its assignments to them, bound to a before:
\* SW_BPE assigns S = S / 1000; SW_FlowExergy assigns T0 = T0 || 25,
\* S0 = S0 || 35, P0 = P0 || 0.101325
Reassigned(f, a) ==
    IF f = "SW_BPE"
      THEN <<a[1], FDiv(a[2], Num(1000, 0))>>
    ELSE IF f = "SW_FlowExergy"
      THEN <<a[1], a[2], a[3],
             IF Falsy(a[4]) THEN Num(25, 0) ELSE a[4],
             IF Falsy(a[5]) THEN Num(35, 0) ELSE a[5],
             IF Falsy(a[6]) THEN Num(101325, -6) ELSE a[6]>>
    ELSE a

\* the call of f that ends as o came to the assignments of f: SW_BPE has
\* them after its guards, SW_FlowExergy after its guards of T, S and P
Reaches(f, o) ==
    \/ f = "SW_BPE" /\ o.ok
    \/ /\ f = "SW_FlowExergy"
       /\ ~(o.kind = "Error" /\ o.by = "SW_FlowExergy"
              /\ o.subject \in {"Temperature", "Salinity", "Pressure"})

\* the assigned variables kept at module level: one S, one T0, S0 and P0
\* for all the calls in progress
ReassignAtModuleLevel(fr, c, a) ==
    [k \in DOMAIN fr |->
        IF k = c THEN a
        ELSE [i \in DOMAIN fr[k] |->
                 IF i \in DOMAIN a /\ a[i] # fr[c][i] THEN a[i] ELSE fr[k][i]]]

\* S = S / 1000: the variable assigned is the parameter, in the frame of
\* this call
Reassign(fr, c, a) == [fr EXCEPT ![c] = a]

\* caller c calls: the arguments it holds are bound in a new frame
Enter(c) ==
    /\ where[c] = "idle"
    /\ \E call \in SomeCalls :
          /\ holds' = [holds EXCEPT ![c] = call]
          /\ frame' = Bind(frame, c, call[2])
    /\ where' = [where EXCEPT ![c] = "entered"]
    /\ UNCHANGED result
    /\ UNCHANGED single

\* the function called by c runs, on the parameters of its frame, up to its
\* assignments to them and makes them; a function that has none, or throws
\* before them, runs to its end
Start(c) ==
    /\ where[c] = "entered"
    /\ LET f == holds[c][1]
           o == Eval(f, frame[c])
       IN  IF Reaches(f, o)
             THEN /\ frame' = Reassign(frame, c, Reassigned(f, frame[c]))
                  /\ where' = [where EXCEPT ![c] = "assigned"]
                  /\ UNCHANGED result
             ELSE /\ result' = [result EXCEPT ![c] = o]
                  /\ where' = [where EXCEPT ![c] = "ran"]
                  /\ UNCHANGED frame
    /\ UNCHANGED holds
    /\ UNCHANGED single

\* the function called by c runs on from its assignments, on the parameters
\* its frame has now, to its end
Run(c) ==
    /\ where[c] = "assigned"
    /\ result' = [result EXCEPT ![c] =
                     IF holds[c][1] = "SW_BPE"
                       THEN Eval("SW_BPE resumed", <<holds[c][2], frame[c]>>)
                     ELSE Eval("SW_FlowExergy resumed", <<holds[c][2], frame[c]>>)]
    /\ where' = [where EXCEPT ![c] = "ran"]
    /\ UNCHANGED <<holds, frame>>
    /\ UNCHANGED single

\* caller c has the outcome; the frame is gone
Leave(c) ==
    /\ where[c] = "ran"
    /\ where' = [where EXCEPT ![c] = "idle"]
    /\ holds' = [holds EXCEPT ![c] = NoCall]
    /\ frame' = Bind(frame, c, <<>>)
    /\ result' = [result EXCEPT ![c] = Pending]
    /\ UNCHANGED single

Entering == \E c \in Callers : Enter(c)

Starting == \E c \in Callers : Start(c)

Running == \E c \in Callers : Run(c)

Leaving == \E c \in Callers : Leave(c)

NextInterleaved ==
    \/ Entering
    \/ Starting
    \/ Running
    \/ Leaving

Interleaved == Init /\ [][NextInterleaved]_vars

----------------------------------------------------------------------------
(* Calls with an argument left out or not a number.  A parameter the caller *)
(* leaves out is undefined in the function; the guards compare it as they   *)
(* compare any other value.                                                 *)

\* the functions of temperature and salinity alone
SalinityFunctions ==
    {"SW_BPE", "SW_Conductivity", "SW_Diffusivity", "SW_Kviscosity",
     "SW_LatentHeat", "SW_OsmCoeff", "SW_OsmPress", "SW_Prandtl",
     "SW_Psat", "SW_SurfaceTension", "SW_Viscosity"}

\* the parameters a function has no default for
Required(f) == IF f \in SalinityFunctions THEN 2 ELSE 3

\* arguments inside the range of every function
InsideArgs(f) ==
    LET tsp == {<<T, S, P>> : T \in {Num(10, 0), Num(40, 0)},
                              S \in {Num(10, 0), Num(35, 0)},
                              P \in {Num(101325, -6), Num(12, 0)}}
    IN  IF f \in SalinityFunctions THEN {<<a[1], a[2]>> : a \in tsp}
        ELSE IF f = "SW_FlowExergy"
          THEN {<<a[1], a[2], a[3], Undefined, Undefined, Undefined>> : a \in tsp}
        ELSE tsp

Call_omitting ==
    /\ pc = "idle"
    /\ \E f \in SalinityFunctions \cup PressureFunctions \cup {"SW_FlowExergy"} :
          \E a \in InsideArgs(f), i \in 1..Required(f), v \in {Undefined, NaN} :
              /\ fn' = f
              /\ args' = [a EXCEPT ![i] = v]
    /\ pc' = "called"
    /\ outcome' = Pending
    /\ UNCHANGED several

NextOmitting ==
    \/ Call_omitting
    \/ Return
    \/ Done

Omitting == Init /\ [][NextOmitting]_vars

----------------------------------------------------------------------------
(* The documented ranges.  The library documents a function's range in the  *)
(* message of the error its guard throws: "... 0 < T < 180 C".              *)

Bounds(tlo, thi, slo, shi) ==
    [Tmin |-> tlo, Tmax |-> thi, Smin |-> slo, Smax |-> shi]

Documented(f) ==
    CASE f = "SW_BPE"            -> Bounds(Num(0, 0), Num(200, 0), Num(0, 0), Num(120, 0))
      [] f = "SW_ChemPot_s"      -> Bounds(Num(10, 0), Num(80, 0), Num(1, -1), Num(120, 0))
      [] f = "SW_ChemPot_w"      -> Bounds(Num(10, 0), Num(80, 0), Num(0, 0), Num(120, 0))
      [] f = "SW_Conductivity"   -> Bounds(Num(0, 0), Num(180, 0), Num(0, 0), Num(160, 0))
      [] f = "SW_ConductivityP"  -> Bounds(Num(10, 0), Num(90, 0), Num(0, 0), Num(120, 0))
      [] f = "SW_Density"        -> Bounds(Num(0, 0), Num(180, 0), Num(0, 0), Num(150, 0))
      [] f = "SW_Diffusivity"    -> Bounds(Num(0, 0), Num(180, 0), Num(0, 0), Num(150, 0))
      [] f = "SW_Enthalpy"       -> Bounds(Num(10, 0), Num(120, 0), Num(0, 0), Num(120, 0))
      [] f = "SW_Entropy"        -> Bounds(Num(10, 0), Num(120, 0), Num(0, 0), Num(120, 0))
      [] f = "SW_FlowExergy"     -> Bounds(Num(10, 0), Num(80, 0), Num(0, 0), Num(120, 0))
      [] f = "SW_Gibbs"          -> Bounds(Num(10, 0), Num(120, 0), Num(0, 0), Num(120, 0))
      [] f = "SW_IntEnergy"      -> Bounds(Num(10, 0), Num(120, 0), Num(0, 0), Num(120, 0))
      [] f = "SW_IsobExp"        -> Bounds(Num(0, 0), Num(180, 0), Num(0, 0), Num(150, 0))
      [] f = "SW_IsothComp"      -> Bounds(Num(0, 0), Num(180, 0), Num(0, 0), Num(160, 0))
      [] f = "SW_Kviscosity"     -> Bounds(Num(0, 0), Num(180, 0), Num(0, 0), Num(150, 0))
      [] f = "SW_LatentHeat"     -> Bounds(Num(0, 0), Num(200, 0), Num(0, 0), Num(240, 0))
      [] f = "SW_OsmCoeff"       -> Bounds(Num(0, 0), Num(120, 0), Num(0, 0), Num(120, 0))
      [] f = "SW_OsmPress"       -> Bounds(Num(0, 0), Num(120, 0), Num(0, 0), Num(120, 0))
      [] f = "SW_Psat"           -> Bounds(Num(0, 0), Num(180, 0), Num(0, 0), Num(160, 0))
      [] f = "SW_Prandtl"        -> Bounds(Num(0, 0), Num(180, 0), Num(0, 0), Num(150, 0))
      [] f = "SW_SpcHeat"        -> Bounds(Num(0, 0), Num(180, 0), Num(0, 0), Num(180, 0))
      [] f = "SW_SurfaceTension" -> Bounds(Num(0, 0), Num(100, 0), Num(0, 0), Num(131, 0))
      [] f = "SW_Viscosity"      -> Bounds(Num(0, 0), Num(180, 0), Num(0, 0), Num(150, 0))
      [] f = "SW_Volume"         -> Bounds(Num(0, 0), Num(180, 0), Num(0, 0), Num(150, 0))

\* the functions that take a pressure: its range is [SW_Psat(T, S) / 1e6, 12]
TakesPressure(f) == f \in PressureFunctions \cup {"SW_FlowExergy"}

\* the upper bound of every pressure range, MPa
UpperPressure == Num(12, 0)

TOutside(f, a) ==
    FLt(a[1], Documented(f).Tmin) \/ FGt(a[1], Documented(f).Tmax)

SOutside(f, a) ==
    FLt(a[2], Documented(f).Smin) \/ FGt(a[2], Documented(f).Smax)

\* the pressure is above 12 MPa, or below the saturation pressure where the
\* saturation pressure is defined
POutside(f, a) ==
    /\ TakesPressure(f)
    /\ \/ FGt(a[3], UpperPressure)
       \/ LET sat == SW_Psat(a[1], a[2])
          IN  sat.ok /\ FLt(a[3], FDiv(sat.val, Num(1, 6)))

OutsideDocumented(f, a) == TOutside(f, a) \/ SOutside(f, a) \/ POutside(f, a)

\* the reference pressure of (T, S): 0.101325 MPa below 100 C, the
\* saturation pressure from 100 C on
ReferencePressure(T, S) ==
    IF FLt(T, Num(100, 0)) THEN Num(101325, -6)
    ELSE FDiv(SW_Psat(T, S).val, Num(1, 6))

----------------------------------------------------------------------------
(* C1.  A call of any function with T, S or (where the function takes one)  *)
(* P outside the function's documented range throws: it never returns a     *)
(* number.  SW_Volume has no pressure guard and throws through SW_Density.  *)

C1_OutOfRangeThrows ==
    (pc = "returned" /\ OutsideDocumented(fn, args)) => ~outcome.ok

\* SW_Volume, called below the saturation pressure, ended in the pressure
\* error of SW_Density
C1_Witness ==
    /\ pc = "returned"
    /\ fn = "SW_Volume"
    /\ ~TOutside(fn, args) /\ ~SOutside(fn, args) /\ POutside(fn, args)
    /\ FLt(args[3], UpperPressure)
    /\ outcome.kind = "Error"
    /\ outcome.by = "SW_Density"
    /\ outcome.subject = "Pressure"

----------------------------------------------------------------------------
(* C2.  A call with T and S each on a bound of the function's documented    *)
(* range, and P within [Psat, 12] where the function takes a pressure, is   *)
(* accepted: no guard, of the function or of a function it calls, throws.   *)

OnBounds(f, a) ==
    /\ a[1] \in {Documented(f).Tmin, Documented(f).Tmax}
    /\ a[2] \in {Documented(f).Smin, Documented(f).Smax}

C2_BoundsAccepted ==
    (pc = "returned" /\ OnBounds(fn, args) /\ ~POutside(fn, args))
        => outcome.kind # "Error"

----------------------------------------------------------------------------
(* C3.  An error of a guard names the variable whose bound the call         *)
(* violates: Temperature, Salinity or Pressure (Reference salinity for the  *)
(* dead state of SW_FlowExergy).  SW_ChemPot_s and SW_ChemPot_w above the   *)
(* reference pressure keep T within 40 C and S within 42 g/kg.              *)

\* the call that threw: the first to end in a throw
Thrower(log) ==
    LET I == {i \in 1..Len(log) : log[i].ev = "throw"}
    IN  log[CHOOSE i \in I : \A j \in I : i <= j]

AboveReference(f, a) ==
    /\ f \in {"SW_ChemPot_s", "SW_ChemPot_w"}
    /\ FGt(a[3], ReferencePressure(a[1], a[2]))

Violates(f, a, subject) ==
    CASE subject = "Temperature" ->
           TOutside(f, a) \/ (AboveReference(f, a) /\ FGt(a[1], Num(40, 0)))
      [] subject = "Salinity" ->
           SOutside(f, a) \/ (AboveReference(f, a) /\ FGt(a[2], Num(42, 0)))
      [] subject = "Pressure" ->
           FGt(a[3], UpperPressure)
             \/ FLt(a[3], FDiv(SW_Psat(a[1], a[2]).val, Num(1, 6)))
      [] subject = "Reference salinity" ->
           FLt(a[5], Num(1, -1))
      [] OTHER -> FALSE

C3_ErrorNamesViolatedVariable ==
    (pc = "returned" /\ outcome.kind = "Error")
        => Violates(Thrower(outcome.log).f, Thrower(outcome.log).a,
                    outcome.subject)

----------------------------------------------------------------------------
(* C4.  A call ends in a number or in the error of a guard (a violated T, S *)
(* or P bound), and in nothing else.                                        *)

C4_OnlyDomainErrors ==
    pc = "returned" => outcome.kind \in {"none", "Error"}

----------------------------------------------------------------------------
(* C5.  SW_FlowExergy of a valid state that is its own dead state,          *)
(* SW_FlowExergy(T0, S0, P0, T0, S0, P0), returns a number close to 0.      *)

\* |x| <= 1e-3
NearZero(x) == ~x.nan /\ FLe(x, Num(1, -3)) /\ FGe(x, Num(-1, -3))

ValidDeadState(a) ==
    /\ FGe(a[2], Num(1, -1))
    /\ ~OutsideDocumented("SW_FlowExergy", a)
    /\ ~OutsideDocumented("SW_ChemPot_s", a)
    /\ ~(AboveReference("SW_ChemPot_s", a)
           /\ (FGt(a[1], Num(40, 0)) \/ FGt(a[2], Num(42, 0))))

C5_ExergyAtDeadStateIsZero ==
    (/\ pc = "returned"
     /\ fn = "SW_FlowExergy"
     /\ <<args[4], args[5], args[6]>> = <<args[1], args[2], args[3]>>
     /\ ValidDeadState(args))
        => (outcome.ok /\ NearZero(outcome.val))

----------------------------------------------------------------------------
(* C6.  SW_FlowExergy, given T, S and P in range and a dead-state salinity  *)
(* S0 below 0.1 g/kg (0 and negative values too), throws the error of the   *)
(* reference salinity: it never takes 35 g/kg for the S0 it was given.      *)

C6_LowReferenceSalinityThrows ==
    (/\ pc = "returned"
     /\ fn = "SW_FlowExergy"
     /\ ~OutsideDocumented(fn, args)
     /\ ~args[5].nan
     /\ FLt(args[5], Num(1, -1)))
        => (outcome.kind = "Error" /\ outcome.subject = "Reference salinity")

----------------------------------------------------------------------------
(* C7.  The functions that resolve a reference pressure all resolve the     *)
(* same one for the same (T, S): 0.101325 MPa for T < 100, SW_Psat(T, S) /  *)
(* 1e6 otherwise; at T = 100 each of them takes the saturation pressure.    *)

ResolvesReference ==
    {"SW_Density", "SW_Enthalpy", "SW_Entropy", "SW_Gibbs", "SW_SpcHeat",
     "SW_IsobExp", "SW_ChemPot_s", "SW_ChemPot_w", "SW_Diffusivity",
     "SW_Kviscosity", "SW_Prandtl"}

C7_SameReferencePressure ==
    (/\ pc = "returned"
     /\ fn \in ResolvesReference
     /\ (outcome.ok \/ ~outcome.p0.nan))
        => outcome.p0 = ReferencePressure(args[1], args[2])

\* SW_Kviscosity, the one function that writes the rule as T >= 100, took
\* the saturation pressure at 100 C
C7_Witness ==
    /\ pc = "returned"
    /\ fn = "SW_Kviscosity"
    /\ args[1] = Num(100, 0)
    /\ outcome.ok
    /\ outcome.p0 = FDiv(SW_Psat(args[1], args[2]).val, Num(1, 6))
    /\ outcome.p0 # Num(101325, -6)

----------------------------------------------------------------------------
(* C8.  SW_Volume(T, S, P) throws exactly when SW_Density(T, S, P) throws,  *)
(* and returns 1 / SW_Density(T, S, P) when it does not.                    *)

C8_VolumeIsReciprocalDensity ==
    (pc = "returned" /\ fn = "SW_Volume")
        => LET rho == SW_Density(args[1], args[2], args[3])
           IN  /\ outcome.ok <=> rho.ok
               /\ rho.ok => outcome.val = FDiv(Num(1, 0), rho.val)

\* SW_Volume returned the reciprocal of a density
C8_Witness ==
    /\ pc = "returned"
    /\ fn = "SW_Volume"
    /\ outcome.ok
    /\ SW_Density(args[1], args[2], args[3]).ok
    /\ ~outcome.val.nan
    /\ outcome.val = FDiv(Num(1, 0), SW_Density(args[1], args[2], args[3]).val)

----------------------------------------------------------------------------
(* C9.  For T and S in its range, SW_Diffusivity(T, S) is SW_Conductivity   *)
(* (T, S) / (SW_Density(T, S, P0) * SW_SpcHeat(T, S, P0)) at the reference  *)
(* pressure P0 of (T, S), and it throws when one of the three throws.       *)

C9_DiffusivityIsComposite ==
    (/\ pc = "returned"
     /\ fn = "SW_Diffusivity"
     /\ ~OutsideDocumented(fn, args))
        => LET P0  == ReferencePressure(args[1], args[2])
               rho == SW_Density(args[1], args[2], P0)
               cp  == SW_SpcHeat(args[1], args[2], P0)
               K   == SW_Conductivity(args[1], args[2])
           IN  IF rho.ok /\ cp.ok /\ K.ok
               THEN /\ outcome.ok
                    /\ outcome.val = FDiv(K.val, FMul(rho.val, cp.val))
               ELSE ~outcome.ok

\* SW_Diffusivity returned a number at 100 C or above, where the reference
\* pressure is the saturation pressure
C9_Witness ==
    /\ pc = "returned"
    /\ fn = "SW_Diffusivity"
    /\ FGe(args[1], Num(100, 0))
    /\ outcome.ok
    /\ ~outcome.val.nan
    /\ outcome.val =
         FDiv(SW_Conductivity(args[1], args[2]).val,
              FMul(SW_Density(args[1], args[2],
                              ReferencePressure(args[1], args[2])).val,
                   SW_SpcHeat(args[1], args[2],
                              ReferencePressure(args[1], args[2])).val))

----------------------------------------------------------------------------
(* C10.  SW_Gibbs at S = 0, for T and P in range, returns a number: the     *)
(* term with log(S) is left out.  At P = P0, the reference pressure, the    *)
(* number is the pure-water polynomial alone.                               *)

\* g_w = a1 + a2 T + a3 T^2 + a4 T^3 + a5 T^4
PureWaterGibbs(T) ==
    Dec(10677, -2)
    ++ (Dec(-14303, -4) ** T)
    ++ (Dec(-76139, -4) ** Math_pow(T, Dec(2, 0)))
    ++ (Dec(83627, -7) ** Math_pow(T, Dec(3, 0)))
    ++ (Dec(-78754, -10) ** Math_pow(T, Dec(4, 0)))

C10_GibbsAtZeroSalinity ==
    (/\ pc = "returned"
     /\ fn = "SW_Gibbs"
     /\ args[2] = Zero
     /\ ~OutsideDocumented(fn, args))
        => /\ outcome.ok
           /\ ~outcome.val.nan
           /\ args[3] = ReferencePressure(args[1], args[2])
                => outcome.val = PureWaterGibbs(args[1])

\* SW_Gibbs(50, 0, 0.101325) returned the pure-water term
C10_Witness ==
    /\ pc = "returned"
    /\ fn = "SW_Gibbs"
    /\ args = <<Num(50, 0), Zero, Num(101325, -6)>>
    /\ outcome.ok
    /\ outcome.val = PureWaterGibbs(args[1])

----------------------------------------------------------------------------
(* C11.  No function catches, replaces or wraps the error of a function it  *)
(* calls: when a call made inside a function throws, every enclosing call   *)
(* ends in a throw, and the top-level caller receives the error the inner   *)
(* call throws on its own, and no value.                                    *)

\* the place in the log of the first call to end in a throw
FirstThrow(log) ==
    LET I == {i \in 1..Len(log) : log[i].ev = "throw"}
    IN  CHOOSE i \in I : \A j \in I : i <= j

HasThrow(log) == \E i \in 1..Len(log) : log[i].ev = "throw"

\* a call made inside the top-level call threw
InnerThrow(log) == HasThrow(log) /\ FirstThrow(log) < Len(log)

\* what an error says: its class, the variable it names, the function of
\* the guard
ErrorOf(o) == <<o.kind, o.subject, o.by>>

C11_ErrorsPropagateUnchanged ==
    (pc = "returned" /\ InnerThrow(outcome.log))
        => LET e == outcome.log[FirstThrow(outcome.log)]
           IN  /\ ~outcome.ok
               /\ outcome.val.nan
               /\ ErrorOf(outcome) = ErrorOf(Eval(e.f, e.a))
               /\ outcome.by = e.f
               /\ \A i \in FirstThrow(outcome.log)..Len(outcome.log) :
                      outcome.log[i].ev = "throw"

\* SW_SpcHeat ended in the salinity error of SW_Psat
C11_Witness ==
    /\ pc = "returned"
    /\ fn = "SW_SpcHeat"
    /\ InnerThrow(outcome.log)
    /\ outcome.log[FirstThrow(outcome.log)].f = "SW_Psat"
    /\ ErrorOf(outcome) = <<"Error", "Salinity", "SW_Psat">>
    /\ ~SOutside(fn, args)

----------------------------------------------------------------------------
(* C12.  A top-level call that ends in the error of a guard throws before   *)
(* any arithmetic of the call is done: no call made inside it has returned  *)
(* its number by the time the guard throws.                                 *)

C12_ErrorBeforeArithmetic ==
    (pc = "returned" /\ outcome.kind = "Error")
        => \A i \in 1..Len(outcome.log) : outcome.log[i].ev # "return"

----------------------------------------------------------------------------
(* C13.  The functions share no state: with the calls of several callers    *)
(* interleaved in any order, also between a function's assignment to its    *)
(* parameters and its use of them, each call ends as it ends when run alone *)
(* on the arguments its caller holds, and no call changes what a caller     *)
(* holds or what another call's parameters are (S = S / 1000 in SW_BPE and  *)
(* the defaults of T0, S0 and P0 in SW_FlowExergy are assignments to the    *)
(* call's own parameters).                                                  *)

C13_CallsDoNotInterfere ==
    \A c \in Callers :
        /\ where[c] # "idle" => holds[c] \in SomeCalls
        /\ where[c] = "entered" => frame[c] = holds[c][2]
        /\ where[c] = "assigned"
              => frame[c] = Reassigned(holds[c][1], holds[c][2])
        /\ where[c] = "ran" => result[c] = Eval(holds[c][1], holds[c][2])

\* SW_BPE, resumed on the S / 1000 of its own frame, has returned while a
\* call of SW_FlowExergy with another salinity stands between the defaults
\* it has assigned and its use of them; the caller of SW_BPE holds S
C13_Witness ==
    \E c, d \in Callers :
        /\ c # d
        /\ where[c] = "ran"
        /\ holds[c][1] = "SW_BPE"
        /\ result[c].ok
        /\ frame[c][2] = FDiv(holds[c][2][2], Num(1000, 0))
        /\ frame[c][2] # holds[c][2][2]
        /\ where[d] = "assigned"
        /\ holds[d][1] = "SW_FlowExergy"
        /\ holds[d][2][5] = Undefined
        /\ frame[d][5] = Num(35, 0)
        /\ frame[d][2] # holds[c][2][2]

----------------------------------------------------------------------------
(* C14.  SW_ChemPot_s accepts (T, S, P) exactly when 10 <= T <= 80,         *)
(* 0.1 <= S <= 120 and SW_Psat(T, S) / 1e6 <= P <= 12, and, when P is above *)
(* the reference pressure P0, S <= 42 and T <= 40 as well; up to P0 the     *)
(* wider bounds T <= 80 and S <= 120 apply.                                 *)

ChemPotAccepts(T, S, P) ==
    /\ FGe(T, Num(10, 0)) /\ FLe(T, Num(80, 0))
    /\ FGe(S, Num(1, -1)) /\ FLe(S, Num(120, 0))
    /\ FGe(P, FDiv(SW_Psat(T, S).val, Num(1, 6))) /\ FLe(P, Num(12, 0))
    /\ FGt(P, ReferencePressure(T, S))
         => (FLe(S, Num(42, 0)) /\ FLe(T, Num(40, 0)))

C14_ChemPotAcceptance ==
    (pc = "returned" /\ fn = "SW_ChemPot_s")
        => (outcome.ok <=> ChemPotAccepts(args[1], args[2], args[3]))

\* SW_ChemPot_s returned a number at T = 80 and S = 120, at the reference
\* pressure
C14_Witness ==
    /\ pc = "returned"
    /\ fn = "SW_ChemPot_s"
    /\ args = <<Num(80, 0), Num(120, 0), Num(101325, -6)>>
    /\ ChemPotAccepts(args[1], args[2], args[3])
    /\ outcome.ok
    /\ ~outcome.val.nan

----------------------------------------------------------------------------
(* C15.  Salinity crosses every function boundary in g/kg: a call made      *)
(* inside a function passes the salinity the top-level caller gave (or the  *)
(* dead-state salinity S0, or the literal 0), never S / 1000 or S /         *)
(* 1.00472, and the caller's own salinity is the same after the call.       *)

\* the salinities a call inside f(a) may pass
PassedOn(f, a) ==
    {a[2], Zero}
        \cup (IF f = "SW_FlowExergy"
              THEN {IF Falsy(a[5]) THEN Num(35, 0) ELSE a[5]}
              ELSE {})

C15_SalinityInGramsPerKilogram ==
    pc = "returned"
        => /\ \A i \in 1..Len(outcome.log) :
                  outcome.log[i].a[2] \in PassedOn(fn, args)
           /\ outcome.log[1].a = args
           /\ outcome.log[Len(outcome.log)].a = args

\* SW_OsmPress passed its S to SW_OsmCoeff and the literal 0 to SW_Density
C15_Witness ==
    /\ pc = "returned"
    /\ fn = "SW_OsmPress"
    /\ outcome.ok
    /\ args[2] = Num(35, 0)
    /\ \E i \in 1..Len(outcome.log) :
           /\ outcome.log[i] =
                [ev |-> "call", f |-> "SW_OsmCoeff", a |-> <<args[1], args[2]>>]
    /\ \E i \in 1..Len(outcome.log) :
           /\ outcome.log[i].ev = "call"
           /\ outcome.log[i].f = "SW_Density"
           /\ outcome.log[i].a[2] = Zero

----------------------------------------------------------------------------
(* C16.  No call, top-level or nested, takes log(S) of an S <= 0.  SW_Gibbs *)
(* and SW_ChemPot_w take it only under S > 0, and SW_ChemPot_w(T, 0, P)     *)
(* returns SW_Gibbs(T, 0, P); SW_ChemPot_s rejects S < 0.1 first.  The log  *)
(* of an S <= 0 is no finite number, and neither is a result made from it.  *)

\* the functions with a log(S)
TakesLogOfS == {"SW_Gibbs", "SW_ChemPot_w", "SW_ChemPot_s"}

\* the call of event e is a call of one of them with S <= 0
LogAtRisk(e) == e.f \in TakesLogOfS /\ FLe(e.a[2], Zero)

C16_NoLogOfNonPositiveSalinity ==
    pc = "returned"
        => \A i \in 1..Len(outcome.log) :
               (outcome.log[i].ev = "return" /\ LogAtRisk(outcome.log[i]))
                   => LET e == outcome.log[i]
                          o == Eval(e.f, e.a)
                      IN  /\ o.ok
                          /\ ~o.val.nan
                          /\ e.f # "SW_ChemPot_s"
                          /\ e.a[2] = Zero
                          /\ o.val = SW_Gibbs(e.a[1], e.a[2], e.a[3]).val

\* SW_ChemPot_w(T, 0, P) returned the number of SW_Gibbs(T, 0, P), which it
\* called
C16_Witness ==
    /\ pc = "returned"
    /\ fn = "SW_ChemPot_w"
    /\ args[2] = Zero
    /\ outcome.ok
    /\ ~outcome.val.nan
    /\ outcome.val = SW_Gibbs(args[1], args[2], args[3]).val
    /\ \E i \in 1..Len(outcome.log) :
           outcome.log[i] = [ev |-> "return", f |-> "SW_Gibbs", a |-> args]

----------------------------------------------------------------------------
(* C17.  Every call ends, in a number or an error, after a bounded number   *)
(* of nested calls: no function is called while a call of it is still       *)
(* open, the calls nest no deeper than there are functions, and every name  *)
(* called inside the library is a function the library defines.             *)

\* the functions whose calls are open after the first n events of log,
\* innermost last
RECURSIVE OpenCalls(_, _)
OpenCalls(log, n) ==
    IF n = 0 THEN <<>>
    ELSE LET open == OpenCalls(log, n - 1)
         IN  IF log[n].ev = "call" THEN Append(open, log[n].f)
             ELSE SubSeq(open, 1, Len(open) - 1)

\* no function is open twice
Acyclic(log) ==
    \A n \in 1..Len(log) :
        LET open == OpenCalls(log, n)
        IN  \A i, j \in 1..Len(open) : open[i] = open[j] => i = j

Exported == {"SW_Psat"} \cup PressureFunctions \cup {"SW_FlowExergy"}
              \cup {"SW_BPE", "SW_Conductivity", "SW_Diffusivity",
                    "SW_Kviscosity", "SW_LatentHeat", "SW_OsmCoeff",
                    "SW_OsmPress", "SW_Prandtl", "SW_SurfaceTension",
                    "SW_Viscosity"}

C17_CallsTerminateAndResolve ==
    pc = "returned"
        => /\ Acyclic(outcome.log)
           /\ OpenCalls(outcome.log, Len(outcome.log)) = <<>>
           /\ \A n \in 1..Len(outcome.log) :
                  /\ Len(OpenCalls(outcome.log, n)) <= Cardinality(Exported)
                  /\ outcome.log[n].f \in Exported
           /\ outcome.kind = "ReferenceError" => outcome.subject \in Exported

----------------------------------------------------------------------------
(* C18.  A function's guards run in the order temperature, salinity,        *)
(* pressure, and the first to fail makes the error: a T out of range gives  *)
(* the temperature error whatever S and P are, an S out of range with T in  *)
(* range the salinity error, and a pressure error comes only with T and S   *)
(* in range.  The guards of SW_Psat throw only in a call of SW_Psat by the  *)
(* caller or by SW_SpcHeat.                                                 *)

C18_GuardOrder ==
    pc = "returned"
        => /\ TOutside(fn, args)
                => ErrorOf(outcome) = <<"Error", "Temperature", fn>>
           /\ (~TOutside(fn, args) /\ SOutside(fn, args))
                => ErrorOf(outcome) = <<"Error", "Salinity", fn>>
           /\ outcome.subject = "Pressure"
                => (~TOutside(fn, args) /\ ~SOutside(fn, args))
           /\ (outcome.kind = "Error" /\ outcome.by = "SW_Psat")
                => fn \in {"SW_Psat", "SW_SpcHeat"}

\* SW_Density, with T, S and P all out of range, threw the temperature error
C18_Witness ==
    /\ pc = "returned"
    /\ fn = "SW_Density"
    /\ TOutside(fn, args) /\ SOutside(fn, args) /\ POutside(fn, args)
    /\ ErrorOf(outcome) = <<"Error", "Temperature", "SW_Density">>

----------------------------------------------------------------------------
(* C19.  The functions that take no pressure and evaluate others at the     *)
(* reference pressure, SW_Diffusivity, SW_Kviscosity, SW_Prandtl and        *)
(* SW_OsmPress, never raise a pressure error for a T and an S inside their  *)
(* ranges: the reference pressure lies in [SW_Psat(T, S) / 1e6, 12] both    *)
(* below 100 C, where it is 0.101325 MPa, and from 100 C on.                *)

Composites == {"SW_Diffusivity", "SW_Kviscosity", "SW_Prandtl", "SW_OsmPress"}

C19_NoPressureErrorInComposites ==
    (/\ pc = "returned"
     /\ fn \in Composites
     /\ ~TOutside(fn, args)
     /\ ~SOutside(fn, args))
        => outcome.subject # "Pressure"

----------------------------------------------------------------------------
(* C20.  A call in which T, S or a required P is left out or is NaN is      *)
(* rejected with an error: no such call passes every guard and returns.     *)

C20_MissingArgumentRejected ==
    (/\ pc = "returned"
     /\ \E i \in 1..Required(fn) : args[i].nan)
        => ~outcome.ok

====
